---- MODULE Spec2Model ----
(***************************************************************************)
(* A model of the Echo life simulation: the entity state (core/echo.ts),   *)
(* the heartbeat scheduler TimeEngine (core/time-engine.ts), the agent     *)
(* engine (core/agent.ts) and the memory store (core/memory.ts), as wired  *)
(* together by index.ts and api/router.ts.                                 *)
(*                                                                         *)
(* Number representation.  The program computes with IEEE doubles; the     *)
(* model computes with exact fixed-point integers:                         *)
(*   - timestamps and durations are milliseconds; a duration the code      *)
(*     holds in seconds ((now - t) / 1000, totalLifeSeconds) is held here  *)
(*     in thousandths of a second, so x seconds is the integer 1000 * x;   *)
(*   - energy is held in units of 1 / EnergyUnit, so that the per-second   *)
(*     rates 0.05 and 0.005 of Echo.tick are whole numbers per millisecond;*)
(*   - probabilities are tenths; a uniform draw r of Math.random() is      *)
(*     represented by the integer floor(10 * r) in 0..9, which decides     *)
(*     every comparison the code makes with r.                             *)
(* Rounding of doubles is not modelled.                                    *)
(***************************************************************************)
EXTENDS Integers, Sequences, FiniteSets, TLC

VARIABLES
    now,            \* Date.now(), milliseconds
    echo,           \* Echo.state
    memories,       \* MemorySystem.memories
    logs,           \* AgentEngine.logs
    tasks,          \* AgentEngine.tasks
    chatHistory,    \* AgentEngine.chatHistory
    config,         \* TimeEngine.config
    lastTick,       \* TimeEngine.lastTick
    lastAutonomous, \* TimeEngine.lastAutonomous
    tickTimer,      \* TimeEngine.tickTimer: 0 is null, else the interval's handle
    timers,         \* the runtime's armed intervals: handle -> time of next firing
    file,           \* data/echo-save.json, the snapshot file (SpecStore; the other
                    \* specifications draw the snapshot they start from themselves)
    pc,             \* where the single thread of control is
    remaining,      \* catchUp: iterations of its loop still to run
    op,             \* history: the last operation performed and its inputs
    pre,            \* history: Echo.state as it was when that operation began
    hist            \* history: counters and observations of the scheduler

vars == <<file, now, echo, memories, logs, tasks, chatHistory, config, lastTick,
          lastAutonomous, tickTimer, timers, pc, remaining, op, pre, hist>>

----------------------------------------------------------------------------
(* Small helpers.                                                          *)

Min(a, b) == IF a <= b THEN a ELSE b
Max(a, b) == IF a >= b THEN a ELSE b

----------------------------------------------------------------------------
(* core/types.ts                                                           *)

Moods == {"calm", "happy", "lonely", "thinking", "excited", "sleepy"}
Activities == {"sleeping", "thinking", "learning", "organizing", "waiting"}

----------------------------------------------------------------------------
(* core/echo.ts: the entity state.                                         *)

\* energy units per energy point: with it 0.005/s is 1 unit per ms and
\* 0.05/s is 10 units per ms
EnergyUnit == 200000
MaxEnergy == 100 * EnergyUnit
LowEnergy == 20 * EnergyUnit
SleepGainPerMs == 10
DrainPerMs == 1
InteractionEnergy == 5 * EnergyUnit

createDefaultState(t) ==
    [ createTime |-> t, lastActive |-> t, totalLifeSeconds |-> 0,
      mood |-> "calm", activity |-> "waiting", energy |-> MaxEnergy,
      level |-> 1, exp |-> 0 ]

\* MOOD_TRANSITIONS, each row in the insertion order Object.entries walks;
\* probabilities in tenths
MOOD_TRANSITIONS(m) ==
    CASE m = "calm"     -> << <<"thinking", 3>>, <<"lonely", 2>>, <<"happy", 1>> >>
      [] m = "happy"    -> << <<"calm", 4>>, <<"excited", 2>> >>
      [] m = "lonely"   -> << <<"calm", 3>>, <<"thinking", 3>> >>
      [] m = "thinking" -> << <<"calm", 3>>, <<"excited", 1>>, <<"happy", 1>> >>
      [] m = "excited"  -> << <<"happy", 4>>, <<"calm", 3>> >>
      [] m = "sleepy"   -> << <<"calm", 5>>, <<"thinking", 1>> >>

RECURSIVE driftWalk(_, _, _, _, _)
driftWalk(transitions, i, cumulative, roll, stay) ==
    IF i > Len(transitions) THEN stay
    ELSE IF roll < cumulative + transitions[i][2] THEN transitions[i][1]
    ELSE driftWalk(transitions, i + 1, cumulative + transitions[i][2], roll, stay)

\* Echo.driftMood: the mood after a draw of roll tenths
driftMoodInclusive(mood, roll) == driftWalk(MOOD_TRANSITIONS(mood), 1, 0, roll - 1, mood)

driftMood(mood, roll) == driftWalk(MOOD_TRANSITIONS(mood), 1, 0, roll, mood)

\* the energy update of Echo.tick
tickEnergyNoClamp(s, deltaMs) ==
    IF s.activity = "sleeping"
    THEN s.energy + deltaMs * SleepGainPerMs
    ELSE s.energy - deltaMs * DrainPerMs

tickEnergy(s, deltaMs) ==
    IF s.activity = "sleeping"
    THEN Min(MaxEnergy, s.energy + deltaMs * SleepGainPerMs)
    ELSE Max(0, s.energy - deltaMs * DrainPerMs)

\* the low-energy forcing of Echo.tick
tickForceSleep(s) ==
    IF s.energy < LowEnergy
    THEN [s EXCEPT !.mood = "sleepy", !.activity = "sleeping"]
    ELSE s

\* Echo.tick(deltaSeconds) at time t; drift is the outcome of
\* Math.random() < 0.1 and roll the draw made by driftMood
EchoTickOneSecond(s, deltaMs, t, drift, roll) ==
    LET s1 == [s EXCEPT !.totalLifeSeconds = @ + Min(deltaMs, 1000), !.lastActive = t]
        s2 == [s1 EXCEPT !.energy = tickEnergy(s1, Min(deltaMs, 1000))]
        s3 == tickForceSleep(s2)
    IN  IF drift THEN [s3 EXCEPT !.mood = driftMood(s3.mood, roll)] ELSE s3

\* tick that leaves the lifetime seconds as they are
EchoTickNoLifetime(s, deltaMs, t, drift, roll) ==
    LET s1 == [s EXCEPT !.lastActive = t]
        s2 == [s1 EXCEPT !.energy = tickEnergy(s1, deltaMs)]
        s3 == tickForceSleep(s2)
    IN  IF drift THEN [s3 EXCEPT !.mood = driftMood(s3.mood, roll)] ELSE s3

EchoTick(s, deltaMs, t, drift, roll) ==
    LET s1 == [s EXCEPT !.totalLifeSeconds = @ + deltaMs, !.lastActive = t]
        s2 == [s1 EXCEPT !.energy = tickEnergy(s1, deltaMs)]
        s3 == tickForceSleep(s2)
    IN  IF drift THEN [s3 EXCEPT !.mood = driftMood(s3.mood, roll)] ELSE s3

\* Echo.setActivity
setActivityUnlessSleeping(s, a) ==
    IF s.activity = "sleeping" THEN s ELSE [s EXCEPT !.activity = a]

setActivity(s, a) == [s EXCEPT !.activity = a]

\* Echo.addExp: the level-up test
leveledUpStrict(s, amount) == s.exp + amount > s.level * 100

leveledUp(s, amount) == s.exp + amount >= s.level * 100

\* Echo.addExp: the state it leaves
addExpKeepOverflow(s, amount) ==
    IF leveledUp(s, amount)
    THEN [s EXCEPT !.exp = s.exp + amount, !.level = @ + 1, !.mood = "excited"]
    ELSE [s EXCEPT !.exp = @ + amount]

addExpTwoLevels(s, amount) ==
    IF s.exp + amount >= s.level * 100 + (s.level + 1) * 100
    THEN [s EXCEPT !.exp = s.exp + amount - s.level * 100 - (s.level + 1) * 100,
                   !.level = @ + 2, !.mood = "excited"]
    ELSE IF leveledUp(s, amount)
    THEN [s EXCEPT !.exp = s.exp + amount - s.level * 100,
                   !.level = @ + 1, !.mood = "excited"]
    ELSE [s EXCEPT !.exp = @ + amount]

addExp(s, amount) ==
    IF leveledUp(s, amount)
    THEN [s EXCEPT !.exp = s.exp + amount - s.level * 100,
                   !.level = @ + 1, !.mood = "excited"]
    ELSE [s EXCEPT !.exp = @ + amount]

\* Echo.onUserInteraction
onUserInteractionAnyActivity(s) ==
    LET s1 == [s EXCEPT !.energy = Min(MaxEnergy, @ + InteractionEnergy)]
        s2 == IF s1.mood = "lonely" THEN [s1 EXCEPT !.mood = "happy"] ELSE s1
    IN  [s2 EXCEPT !.activity = "thinking"]

\* onUserInteraction that leaves a lonely mood as it is
onUserInteractionKeepMood(s) ==
    LET s1 == [s EXCEPT !.energy = Min(MaxEnergy, @ + InteractionEnergy)]
    IN  IF s1.activity \in {"waiting", "sleeping"}
        THEN [s1 EXCEPT !.activity = "thinking"]
        ELSE s1

onUserInteraction(s) ==
    LET s1 == [s EXCEPT !.energy = Min(MaxEnergy, @ + InteractionEnergy)]
        s2 == IF s1.mood = "lonely" THEN [s1 EXCEPT !.mood = "happy"] ELSE s1
    IN  IF s2.activity \in {"waiting", "sleeping"}
        THEN [s2 EXCEPT !.activity = "thinking"]
        ELSE s2

----------------------------------------------------------------------------
(* Text.  A string is a sequence of characters; a character is written as  *)
(* a short ASCII name (the Chinese characters of the patterns by their     *)
(* romanised names).  SP is a space, NL a line break.                      *)

SP == " "
NL == "NL"
Whitespace == {SP, NL}

\* text[from..to], empty when from > to
Slice(text, from, to) == [i \in 1..Max(0, to - from + 1) |-> text[from + i - 1]]

\* whether word occurs in text at position pos
OccursAt(word, text, pos) ==
    /\ pos >= 1
    /\ pos + Len(word) - 1 <= Len(text)
    /\ \A i \in 1..Len(word) : text[pos + i - 1] = word[i]

\* String.prototype.includes
includes(text, word) == \E pos \in 1..(Len(text) + 1) : OccursAt(word, text, pos)

\* String.prototype.trim
trim(text) ==
    LET kept == {i \in 1..Len(text) : text[i] \notin Whitespace}
    IN  IF kept = {} THEN <<>>
        ELSE Slice(text, CHOOSE i \in kept : \A j \in kept : i <= j,
                         CHOOSE i \in kept : \A j \in kept : i >= j)

----------------------------------------------------------------------------
(* core/agent.ts: extractTaskIntent.                                       *)

\* the four patterns in order; a pattern is a sequence of (?:a|b|...)
\* groups, each a sequence of alternatives, followed by the capture (.+)
patterns ==
    << << << <<"ti", "xing", "wo">>, <<"bang", "wo", "ji">>,
             <<"bie", "wang", "le">>, <<"ji", "de">> >> >>,
       << << <<"ming", "tian">>, <<"xia", "zhou">>, <<"hou", "tian">> >>,
          << <<"yao">>, <<"de">>, <<"xu", "yao">> >> >>,
       << << <<"wo", "xiang">>, <<"wo", "yao">>, <<"wo", "da", "suan">> >> >>,
       << << <<"jihua_ji", "hua">>, <<"an", "pai">> >> >> >>

\* the position where the capture starts when groups gi.. match at pos and at
\* least one character other than a line break follows; 0 when they do not.
\* Alternatives are tried in order, backtracking into the next on failure.
RECURSIVE matchGroups(_, _, _, _)
RECURSIVE matchAlts(_, _, _, _, _)
matchGroups(text, pos, groups, gi) ==
    IF gi > Len(groups)
    THEN IF pos <= Len(text) /\ text[pos] # NL THEN pos ELSE 0
    ELSE matchAlts(text, pos, groups, gi, 1)

matchAlts(text, pos, groups, gi, ai) ==
    IF ai > Len(groups[gi]) THEN 0
    ELSE LET alt == groups[gi][ai]
             rest == IF OccursAt(alt, text, pos)
                     THEN matchGroups(text, pos + Len(alt), groups, gi + 1)
                     ELSE 0
         IN  IF rest # 0 THEN rest ELSE matchAlts(text, pos, groups, gi, ai + 1)

\* text.match(pattern): the leftmost match; its capture (.+) runs to the end
\* of the line.  [matched, capture]
matchPattern(text, pattern) ==
    LET starts == {pos \in 1..Len(text) : matchGroups(text, pos, pattern, 1) # 0}
    IN  IF starts = {} THEN [matched |-> FALSE, capture |-> <<>>]
        ELSE LET pos == CHOOSE p \in starts : \A q \in starts : p <= q
                 from == matchGroups(text, pos, pattern, 1)
                 breaks == {i \in from..Len(text) : text[i] = NL}
                 to == IF breaks = {} THEN Len(text)
                       ELSE (CHOOSE i \in breaks : \A j \in breaks : i <= j) - 1
             IN  [matched |-> TRUE, capture |-> Slice(text, from, to)]

\* extractTaskIntent: [found, text]; found = FALSE is the null result
RECURSIVE extractFrom(_, _)
extractFrom(text, pi) ==
    IF pi > Len(patterns) THEN [found |-> FALSE, text |-> <<>>]
    ELSE LET m == matchPattern(text, patterns[pi])
         IN  IF m.matched THEN [found |-> TRUE, text |-> trim(m.capture)]
             ELSE extractFrom(text, pi + 1)

extractTaskIntent(text) == extractFrom(text, 1)

\* JavaScript truthiness of extractTaskIntent's result: null and "" are falsy
truthy(intent) == intent.found /\ intent.text # <<>>

----------------------------------------------------------------------------
(* core/memory.ts: the memory store.                                       *)

\* the characters extractTags replaces by a space (ASCII ones as themselves,
\* the full-width ones by name)
Punctuation == {",", ".", "!", "?", ";", ":", "'", "\"", "(", ")", "[", "]",
                "{", "}", "zh_comma", "zh_stop", "zh_excl", "zh_quest",
                "zh_pause", "zh_semi", "zh_colon", "zh_lquote", "zh_rquote",
                "zh_lparen", "zh_rparen"}
Separators == Punctuation \cup Whitespace

\* the words text.replace(...).split(" ") yields that are longer than 1:
\* the maximal runs of non-separator characters of length > 1, in order
splitWords(text) ==
    LET kept(i) == i >= 1 /\ i <= Len(text) /\ text[i] \notin Separators
        starts == {i \in 1..Len(text) : kept(i) /\ ~kept(i - 1)}
        stop(i) == CHOOSE j \in i..Len(text) :
                       /\ ~kept(j + 1)
                       /\ \A k \in i..j : kept(k)
        long == {i \in starts : stop(i) - i + 1 > 1}
    IN  [n \in 1..Cardinality(long) |->
            LET i == CHOOSE x \in long : Cardinality({y \in long : y < x}) = n - 1
            IN  Slice(text, i, stop(i))]

\* [...new Set(words)]: first occurrences, in order
RECURSIVE dedupe(_, _)
dedupe(words, seen) ==
    IF words = <<>> THEN <<>>
    ELSE IF Head(words) \in seen THEN dedupe(Tail(words), seen)
         ELSE <<Head(words)>> \o dedupe(Tail(words), seen \cup {Head(words)})

MaxTags == 5

extractTagsOverTwo(text) ==
    LET words == SelectSeq(dedupe(splitWords(text), {}), LAMBDA w : Len(w) > 2)
    IN  SubSeq(words, 1, Min(MaxTags, Len(words)))

extractTags(text) ==
    LET words == dedupe(splitWords(text), {})
    IN  SubSeq(words, 1, Min(MaxTags, Len(words)))

emotionalWords ==
    << <<"xiang">>, <<"yao">>, <<"xi_hope", "wang_hope">>, <<"meng", "xiang">>,
       <<"mu", "biao">>, <<"jihua_ji", "hua">>, <<"xi_like", "huan">>,
       <<"tao", "yan">>, <<"hai", "pa">>, <<"kai", "xin">>, <<"nan", "guo">>,
       <<"zhong", "yao">> >>

\* calculateImportance, in hundredths
calculateImportanceUncapped(text) ==
    LET lengthBonus == (IF Len(text) > 20 THEN 10 ELSE 0)
                     + (IF Len(text) > 50 THEN 10 ELSE 0)
                     + (IF Len(text) > 100 THEN 10 ELSE 0)
        hits == Cardinality({k \in 1..Len(emotionalWords) :
                                 includes(text, emotionalWords[k])})
    IN  30 + lengthBonus + 5 * hits

calculateImportance(text) ==
    LET lengthBonus == (IF Len(text) > 20 THEN 10 ELSE 0)
                     + (IF Len(text) > 50 THEN 10 ELSE 0)
                     + (IF Len(text) > 100 THEN 10 ELSE 0)
        hits == Cardinality({k \in 1..Len(emotionalWords) :
                                 includes(text, emotionalWords[k])})
    IN  Min(100, 30 + lengthBonus + 5 * hits)

\* genId(prefix): the time and a serial that stands for the random suffix,
\* taken never to repeat
genId(prefix, t, serial) == <<prefix, t, serial>>

\* MemorySystem.add at time t
\* add over a store that keeps two entries and drops the oldest beyond them
memoryAddCapped(mems, content, t) ==
    LET kept == IF Len(mems) >= 2 THEN Tail(mems) ELSE mems
    IN  Append(kept, [ id |-> genId("mem", t, Len(mems) + 1),
                       content |-> content,
                       importance |-> calculateImportance(content),
                       tags |-> extractTags(content),
                       createTime |-> t,
                       lastRecallTime |-> t,
                       recallCount |-> 0 ])

memoryAdd(mems, content, t) ==
    Append(mems, [ id |-> genId("mem", t, Len(mems) + 1),
                   content |-> content,
                   importance |-> calculateImportance(content),
                   tags |-> extractTags(content),
                   createTime |-> t,
                   lastRecallTime |-> t,
                   recallCount |-> 0 ])

\* getRelated(query, limit = 5)
DefaultRelatedLimit == 5

\* milliseconds after which the recency factor 1 - ageHours * 0.01 is zero
RecencySpan == 360000000

\* getRelated: the keyword score of entry m before the recency factor, in
\* units of 1/200 (halves of a match, hundredths of importance)
matchScore(m, queryWords) ==
    LET inContent == Cardinality({k \in 1..Len(queryWords) :
                                      includes(m.content, queryWords[k])})
        inTags == Cardinality({k \in 1..Len(queryWords) :
                                   \E j \in 1..Len(m.tags) : m.tags[j] = queryWords[k]})
    IN  (2 * inContent + inTags) * m.importance

\* what the recency factor max(0.5, 1 - age * 0.01) takes off, in
\* 1/RecencySpan
recencyLoss(m, t) == Min(RecencySpan \div 2, t - m.createTime)

\* the score of entry m, matchScore * (RecencySpan - recencyLoss), as the two
\* digits <<high, low>> of a number written in base ScoreRadix (the product
\* does not fit the integers of the checker)
ScoreRadix == 100000
score(m, queryWords, t) ==
    LET a == matchScore(m, queryWords)
        x == RecencySpan - recencyLoss(m, t)
        low == a * (x % ScoreRadix)
    IN  <<a * (x \div ScoreRadix) + low \div ScoreRadix, low % ScoreRadix>>

\* score(m1) > score(m2)
scoreGreater(m1, m2, queryWords, t) ==
    LET s1 == score(m1, queryWords, t)
        s2 == score(m2, queryWords, t)
    IN  s1[1] > s2[1] \/ (s1[1] = s2[1] /\ s1[2] > s2[2])

\* the indices getRelated returns, in order (Array.prototype.sort is stable:
\* entries of equal score keep their order in the store)
relatedIndicesUnfiltered(mems, query, limit, t) ==
    LET queryWords == extractTags(query)
        positive == 1..Len(mems)
        before(i, j) == \/ scoreGreater(mems[i], mems[j], queryWords, t)
                        \/ /\ ~scoreGreater(mems[j], mems[i], queryWords, t)
                           /\ i < j
        sorted == [k \in 1..Cardinality(positive) |->
                      CHOOSE i \in positive :
                          Cardinality({j \in positive : before(j, i)}) = k - 1]
    IN  SubSeq(sorted, 1, Min(limit, Len(sorted)))

relatedIndicesUnsorted(mems, query, limit, t) ==
    LET queryWords == extractTags(query)
        positive == {i \in 1..Len(mems) :
                        score(mems[i], queryWords, t) # <<0, 0>>}
        sorted == [k \in 1..Cardinality(positive) |->
                      CHOOSE i \in positive :
                          Cardinality({j \in positive : j < i}) = k - 1]
    IN  SubSeq(sorted, 1, Min(limit, Len(sorted)))

relatedIndices(mems, query, limit, t) ==
    LET queryWords == extractTags(query)
        positive == {i \in 1..Len(mems) :
                        score(mems[i], queryWords, t) # <<0, 0>>}
        before(i, j) == \/ scoreGreater(mems[i], mems[j], queryWords, t)
                        \/ /\ ~scoreGreater(mems[j], mems[i], queryWords, t)
                           /\ i < j
        sorted == [k \in 1..Cardinality(positive) |->
                      CHOOSE i \in positive :
                          Cardinality({j \in positive : before(j, i)}) = k - 1]
    IN  SubSeq(sorted, 1, Min(limit, Len(sorted)))

\* the .map of getRelated: the store after the entries at idx are marked
markRecalled(mems, idx, t) ==
    [i \in 1..Len(mems) |->
        IF \E k \in 1..Len(idx) : idx[k] = i
        THEN [mems[i] EXCEPT !.lastRecallTime = t, !.recallCount = @ + 1]
        ELSE mems[i]]

\* MemorySystem.getRelated at time t: the store it leaves
getRelatedStore(mems, query, limit, t) ==
    markRecalled(mems, relatedIndices(mems, query, limit, t), t)

\* the entries at idx, as marked
recalledEntries(mems, idx, t) ==
    [k \in 1..Len(idx) |->
        [mems[idx[k]] EXCEPT !.lastRecallTime = t, !.recallCount = @ + 1]]

\* MemorySystem.getRelated at time t: the entries it returns
getRelated(mems, query, limit, t) ==
    recalledEntries(mems, relatedIndices(mems, query, limit, t), t)

\* getRecent(limit = 10), getImportant(limit = 5), and the limit summarize
\* passes to both
DefaultRecentLimit == 10
DefaultImportantLimit == 5
SummaryLimit == 3

\* mems.sort((a, b) => b.createTime - a.createTime): newest first, entries
\* of equal creation time in the order they had (the sort is stable)
sortByCreateTime(mems) ==
    LET before(i, j) == \/ mems[i].createTime > mems[j].createTime
                        \/ mems[i].createTime = mems[j].createTime /\ i < j
    IN  [k \in 1..Len(mems) |->
            mems[CHOOSE i \in 1..Len(mems) :
                     Cardinality({j \in 1..Len(mems) : before(j, i)}) = k - 1]]

\* mems.sort((a, b) => b.importance - a.importance)
sortByImportance(mems) ==
    LET before(i, j) == \/ mems[i].importance > mems[j].importance
                        \/ mems[i].importance = mems[j].importance /\ i < j
    IN  [k \in 1..Len(mems) |->
            mems[CHOOSE i \in 1..Len(mems) :
                     Cardinality({j \in 1..Len(mems) : before(j, i)}) = k - 1]]

\* MemorySystem.getRecent(limit), limit >= 0: the entries it returns
getRecent(mems, limit) == SubSeq(sortByCreateTime(mems), 1, Min(limit, Len(mems)))

\* MemorySystem.getRecent: this.memories as the call leaves it; the sort
\* acts on the copy slice() made
getRecentInPlace(mems, limit) == sortByCreateTime(mems)

getRecentStore(mems, limit) == mems

\* MemorySystem.getImportant(limit), limit >= 0: the entries it returns
getImportant(mems, limit) == SubSeq(sortByImportance(mems), 1, Min(limit, Len(mems)))

\* MemorySystem.getImportant: this.memories as the call leaves it
getImportantStore(mems, limit) == mems

\* the texts of summarize
SummaryEmpty == <<"hai_yet", "mei", "you", "ren", "he", "ji", "yi", "zh_stop">>
SummaryImportant == <<"zhong", "yao", "ji", "yi", "zh_colon">>
SummaryRecent == <<"zui", "jin", "ji", "yi", "zh_colon">>

\* entries.map((m) => m.content).join(sep)
RECURSIVE joinContents(_, _)
joinContents(entries, sep) ==
    IF entries = <<>> THEN <<>>
    ELSE IF Len(entries) = 1 THEN entries[1].content
    ELSE entries[1].content \o sep \o joinContents(Tail(entries), sep)

\* MemorySystem.summarize: the text it returns
summarize(mems) ==
    IF Len(mems) = 0 THEN SummaryEmpty
    ELSE LET important == getImportant(mems, SummaryLimit)
             recent == getRecent(getImportantStore(mems, SummaryLimit), SummaryLimit)
             part1 == IF Len(important) > 0
                      THEN <<SummaryImportant \o joinContents(important, <<"zh_semi">>)>>
                      ELSE <<>>
             part2 == IF Len(recent) > 0
                      THEN <<SummaryRecent \o joinContents(recent, <<"zh_semi">>)>>
                      ELSE <<>>
             parts == part1 \o part2
         IN  IF Len(parts) = 0 THEN <<>>
             ELSE IF Len(parts) = 1 THEN parts[1]
             ELSE parts[1] \o <<NL>> \o parts[2]

\* summarize that counts a recall for every entry it reads
summarizeStoreRecalling(mems) ==
    [k \in 1..Len(mems) |-> [mems[k] EXCEPT !.recallCount = @ + 1]]

\* MemorySystem.summarize: this.memories as the call leaves it
summarizeStore(mems) ==
    IF Len(mems) = 0 THEN mems
    ELSE getRecentStore(getImportantStore(mems, SummaryLimit), SummaryLimit)

----------------------------------------------------------------------------
(* core/echo.ts: getAgeDescription; core/agent.ts: the agent engine.       *)
(* The operations of the agent act on w, the objects they are handed:      *)
(* [echo, memories, logs, tasks, chatHistory].                             *)

\* Echo.getAgeDescription: the bucket and the numbers it prints
getAgeDescription(s) ==
    LET ms == s.totalLifeSeconds
    IN  IF ms < 60000 THEN <<"seconds", ms \div 1000>>
        ELSE IF ms < 3600000 THEN <<"minutes", ms \div 60000>>
        ELSE IF ms < 86400000
             THEN <<"hours", ms \div 3600000, (ms % 3600000) \div 60000>>
             ELSE <<"days", ms \div 86400000, (ms % 86400000) \div 3600000>>

ScanWindow == 10
TaskDelayMs == 3600 * 1000
AutonomousExp == 10
MessageExp == 5
RelatedLimit == 3

\* this.chatHistory.filter((m) => m.role === "user").slice(-10)
\* the user messages among the last ten messages of either role
recentChatsAnyRole(chat) ==
    SelectSeq(SubSeq(chat, Max(1, Len(chat) - ScanWindow + 1), Len(chat)),
              LAMBDA m : m.role = "user")

recentChats(chat) ==
    LET users == SelectSeq(chat, LAMBDA m : m.role = "user")
    IN  SubSeq(users, Max(1, Len(users) - ScanWindow + 1), Len(users))

\* whether autonomousAction skips an extracted intent as already known
taskKnownNever(ts, text) == FALSE

\* the test made against the pending tasks only
taskKnownPending(ts, text) ==
    \E k \in 1..Len(ts) : ts[k].content = text /\ ts[k].status = "pending"

taskKnown(ts, text) == \E k \in 1..Len(ts) : ts[k].content = text

\* the loop of autonomousAction over the scanned messages, from message i
RECURSIVE scanChats(_, _, _, _)
scanChats(chats, i, ts, t) ==
    IF i > Len(chats) THEN ts
    ELSE LET intent == extractTaskIntent(chats[i].content)
         IN  IF truthy(intent) /\ ~taskKnown(ts, intent.text)
             THEN scanChats(chats, i + 1,
                            Append(ts, [ id |-> genId("task", t, Len(ts) + 1),
                                         content |-> intent.text,
                                         triggerTime |-> t + TaskDelayMs,
                                         status |-> "pending",
                                         createTime |-> t ]), t)
             ELSE scanChats(chats, i + 1, ts, t)

\* AgentEngine.autonomousAction at time t; coin is Math.random() > 0.5.  A
\* log entry's content is held as the context ctx its template renders;
\* which of the SOLO_THOUGHTS templates is drawn is not recorded.
\* autonomousAction that writes its log entry last, after the experience
\* grant and the change of activity
autonomousActionLogLast(w, t, coin) ==
    LET e1 == setActivity(w.echo, "organizing")
        ts == scanChats(recentChats(w.chatHistory), 1, w.tasks, t)
        e2 == addExp(e1, AutonomousExp)
        e3 == setActivity(e2, IF coin THEN "thinking" ELSE "waiting")
        ctx == [ memoryCount |-> Len(w.memories),
                 age |-> getAgeDescription(e3),
                 mood |-> e3.mood ]
        entry == [ id |-> genId("log", t, Len(w.logs) + 1),
                   content |-> ctx,
                   activity |-> e3.activity,
                   mood |-> e3.mood,
                   timestamp |-> t ]
    IN  [w EXCEPT !.echo = e3,
                  !.memories = summarizeStore(@),
                  !.tasks = ts,
                  !.logs = Append(@, entry)]

autonomousAction(w, t, coin) ==
    LET e1 == setActivity(w.echo, "organizing")
        ts == scanChats(recentChats(w.chatHistory), 1, w.tasks, t)
        ctx == [ memoryCount |-> Len(w.memories),
                 age |-> getAgeDescription(e1),
                 mood |-> e1.mood ]
        entry == [ id |-> genId("log", t, Len(w.logs) + 1),
                   content |-> ctx,
                   activity |-> e1.activity,
                   mood |-> e1.mood,
                   timestamp |-> t ]
        e2 == addExp(e1, AutonomousExp)
    IN  [w EXCEPT !.echo = setActivity(e2, IF coin THEN "thinking" ELSE "waiting"),
                  !.memories = summarizeStore(@),
                  !.tasks = ts,
                  !.logs = Append(@, entry)]

\* generateResponse: the mood prefix ("" for calm)
replyPrefix(mood) == IF mood = "calm" THEN "" ELSE mood

\* generateResponse: the body, by the first keyword family that applies.
\* coin is Math.random() > 0.5 of the fallback branch; which of the generic
\* acknowledgements is drawn is not recorded.
replyBody(text, e, related, coin) ==
    IF \/ includes(text, <<"ni", "hao">>)
       \/ includes(text, <<"hai_hi">>)
       \/ includes(text, <<"h", "i">>)
    THEN [kind |-> "age", age |-> getAgeDescription(e)]
    ELSE IF \/ includes(text, <<"ni", "zai", "gan", "ma">>)
            \/ includes(text, <<"zai", "zuo", "shen", "me">>)
    THEN [kind |-> "doing", activity |-> e.activity, mood |-> e.mood]
    ELSE IF includes(text, <<"ji", "yi">>) \/ includes(text, <<"ji", "de">>)
    THEN IF Len(related) > 0
         THEN [kind |-> "memories",
               items |-> [k \in 1..Len(related) |-> related[k].content]]
         ELSE [kind |-> "nomemory"]
    ELSE IF truthy(extractTaskIntent(text))
    THEN [kind |-> "task"]
    ELSE IF Len(related) > 0 /\ coin
    THEN [kind |-> "reference", item |-> related[1].content]
    ELSE [kind |-> "generic"]

\* AgentEngine.handleUserMessage at time t: [w, reply].  Whether a warm
\* suffix is appended to the reply, and which, is not recorded.
handleUserMessageNoReply(w, text, t, coin) ==
    LET userMsg == [ id |-> genId("msg", t, Len(w.chatHistory) + 1),
                     role |-> "user", content |-> text, timestamp |-> t ]
        mems1 == memoryAdd(w.memories, text, t)
        e1 == addExp(onUserInteraction(w.echo), MessageExp)
        related == getRelated(mems1, text, RelatedLimit, t)
        mems2 == getRelatedStore(mems1, text, RelatedLimit, t)
        response == [ prefix |-> replyPrefix(e1.mood),
                      body |-> replyBody(text, e1, related, coin) ]
    IN  [ w |-> [w EXCEPT !.echo = e1,
                          !.memories = mems2,
                          !.chatHistory = Append(@, userMsg)],
          reply |-> response ]

\* handleUserMessage that generates the reply on arrival, before the
\* message is stored and before the entity is updated
handleUserMessageReplyFirst(w, text, t, coin) ==
    LET userMsg == [ id |-> genId("msg", t, Len(w.chatHistory) + 1),
                     role |-> "user", content |-> text, timestamp |-> t ]
        related == getRelated(w.memories, text, RelatedLimit, t)
        mems1 == getRelatedStore(w.memories, text, RelatedLimit, t)
        response == [ prefix |-> replyPrefix(w.echo.mood),
                      body |-> replyBody(text, w.echo, related, coin) ]
        mems2 == memoryAdd(mems1, text, t)
        e1 == addExp(onUserInteraction(w.echo), MessageExp)
        echoMsg == [ id |-> genId("msg", t, Len(w.chatHistory) + 2),
                     role |-> "echo", content |-> response, timestamp |-> t ]
    IN  [ w |-> [w EXCEPT !.echo = e1,
                          !.memories = mems2,
                          !.chatHistory = Append(Append(@, userMsg), echoMsg)],
          reply |-> response ]

handleUserMessage(w, text, t, coin) ==
    LET userMsg == [ id |-> genId("msg", t, Len(w.chatHistory) + 1),
                     role |-> "user", content |-> text, timestamp |-> t ]
        mems1 == memoryAdd(w.memories, text, t)
        e1 == addExp(onUserInteraction(w.echo), MessageExp)
        related == getRelated(mems1, text, RelatedLimit, t)
        mems2 == getRelatedStore(mems1, text, RelatedLimit, t)
        response == [ prefix |-> replyPrefix(e1.mood),
                      body |-> replyBody(text, e1, related, coin) ]
        echoMsg == [ id |-> genId("msg", t, Len(w.chatHistory) + 2),
                     role |-> "echo", content |-> response, timestamp |-> t ]
    IN  [ w |-> [w EXCEPT !.echo = e1,
                          !.memories = mems2,
                          !.chatHistory = Append(Append(@, userMsg), echoMsg)],
          reply |-> response ]

\* AgentEngine.getDueTasks at time t
getDueTasksAnyStatus(ts, t) == SelectSeq(ts, LAMBDA x : x.triggerTime <= t)

getDueTasks(ts, t) ==
    SelectSeq(ts, LAMBDA x : x.status = "pending" /\ x.triggerTime <= t)

\* AgentEngine.completeTask: find gives the first task with that id
\* completeTask that turns a done task back to pending
completeTaskToggle(ts, taskId) ==
    LET found == {k \in 1..Len(ts) : ts[k].id = taskId}
    IN  IF found = {} THEN ts
        ELSE LET k == CHOOSE x \in found : \A j \in found : x <= j
             IN  [ts EXCEPT ![k].status = IF @ = "done" THEN "pending" ELSE "done"]

completeTask(ts, taskId) ==
    LET found == {k \in 1..Len(ts) : ts[k].id = taskId}
    IN  IF found = {} THEN ts
        ELSE [ts EXCEPT ![CHOOSE k \in found : \A j \in found : k <= j].status = "done"]

\* getRecentLogs(limit = 20)
DefaultLogsLimit == 20

\* logs.sort((a, b) => b.timestamp - a.timestamp): newest first, entries of
\* equal timestamp in the order they had (the sort is stable)
sortLogs(ls) ==
    LET before(i, j) == \/ ls[i].timestamp > ls[j].timestamp
                        \/ ls[i].timestamp = ls[j].timestamp /\ i < j
    IN  [k \in 1..Len(ls) |->
            ls[CHOOSE i \in 1..Len(ls) :
                   Cardinality({j \in 1..Len(ls) : before(j, i)}) = k - 1]]

\* AgentEngine.getRecentLogs(limit), limit >= 0: the entries it returns
getRecentLogs(ls, limit) == SubSeq(sortLogs(ls), 1, Min(limit, Len(ls)))

\* AgentEngine.getRecentLogs: this.logs as the call leaves it; the sort acts
\* on the copy slice() made
getRecentLogsInPlace(ls, limit) == sortLogs(ls)

getRecentLogsStore(ls, limit) == ls

\* Array.prototype.slice(start) for an integer start: a negative start counts
\* from the end, and -0 is 0
sliceFrom(seq, start) ==
    LET from == IF start < 0 THEN Max(Len(seq) + start, 0) ELSE Min(start, Len(seq))
    IN  SubSeq(seq, from + 1, Len(seq))

\* AgentEngine.getChatHistory(limit): this.chatHistory.slice(-limit)
getChatHistory(chat, limit) == sliceFrom(chat, 0 - limit)

----------------------------------------------------------------------------
(* core/time-engine.ts: the heartbeat scheduler, and the program of        *)
(* index.ts around it.  JavaScript runs each handler to completion: pc is  *)
(* "idle" between handlers, and while it is not, only the handler under    *)
(* way takes steps.  A handler reads the clock once.                       *)

DefaultTickIntervalMs == 10000
DefaultAutonomousIntervalMs == 60000
CatchUpThresholdMs == 60000
CatchUpMinuteMs == 60000
CatchUpCap == 10

\* bounds of the model
MaxClockSteps == 2      \* steps the clock takes past the start
MaxMsgs == 2            \* user messages sent in one run

\* index.ts: the period of the autosave
AutosaveIntervalMs == 30000

\* the inputs drawn
AutonomousIntervals == {30000, DefaultAutonomousIntervalMs}
ClockStepMs == DefaultAutonomousIntervalMs \div 2
Rolls == {0, 9}          \* the draws of driftMood made under the scheduler
T_hi == <<"h", "i">>
T_remind == <<"ti", "xing", "wo", "mai", "nai">>
MsgTexts == {T_remind}   \* the texts sent to the running program

\* the time at which the process starts
StartTime == 25 * DefaultAutonomousIntervalMs

World == [ echo |-> echo, memories |-> memories, logs |-> logs,
           tasks |-> tasks, chatHistory |-> chatHistory ]

\* the objects as the step under way leaves them
WorldAfter == [ echo |-> echo', memories |-> memories', logs |-> logs',
                tasks |-> tasks', chatHistory |-> chatHistory' ]

SetWorld(w) ==
    /\ echo' = w.echo
    /\ memories' = w.memories
    /\ logs' = w.logs
    /\ tasks' = w.tasks
    /\ chatHistory' = w.chatHistory

agentVars == <<memories, logs, tasks, chatHistory>>
schedVars == <<config, lastTick, lastAutonomous, tickTimer, timers>>

\* new Echo(), new MemorySystem(), new AgentEngine() at time t
freshWorld(t) ==
    [ echo |-> createDefaultState(t), memories |-> <<>>, logs |-> <<>>,
      tasks |-> <<>>, chatHistory |-> <<>> ]

\* what an earlier run of the program, started fresh at time c, held after
\* `cycles` heartbeats one minute apart, each with its autonomous cycle, and
\* then the messages `texts`: the snapshot it saved
RECURSIVE earlierCycles(_, _)
earlierCycles(cycles, c) ==
    IF cycles = 0 THEN freshWorld(c)
    ELSE LET w == earlierCycles(cycles - 1, c)
             t == c + cycles * DefaultAutonomousIntervalMs
         IN  autonomousAction(
                 [w EXCEPT !.echo = EchoTick(w.echo, DefaultAutonomousIntervalMs,
                                             t, FALSE, 0)], t, TRUE)

RECURSIVE earlierMessages(_, _, _)
earlierMessages(w, texts, t) ==
    IF texts = <<>> THEN w
    ELSE earlierMessages(handleUserMessage(w, Head(texts), t, FALSE).w, Tail(texts), t)

\* the snapshot saved gap ms before StartTime
snapshot(boot) ==
    LET savedAt == StartTime - boot.gap
        c == savedAt - boot.cycles * DefaultAutonomousIntervalMs
    IN  earlierMessages(earlierCycles(boot.cycles, c), boot.texts, savedAt)

\* catchUp: the number of autonomous cycles it replays
autonomousCountUncapped(offlineMs, cfg) == offlineMs \div CatchUpMinuteMs

autonomousCount(offlineMs, cfg) == Min(CatchUpCap, offlineMs \div CatchUpMinuteMs)

\* catchUp: whether it returns at once
catchUpSkipsNever(offlineMs) == FALSE

catchUpSkips(offlineMs) == offlineMs < CatchUpThresholdMs

\* TimeEngine.tick: whether an autonomous cycle is due
autonomousDueAlways(sinceMs, cfg) == TRUE

autonomousDue(sinceMs, cfg) == sinceMs >= cfg.autonomousIntervalMs

\* TimeEngine.stop: the armed intervals it leaves
clearIntervalNothing(armed, handle) == armed

clearInterval(armed, handle) == {timer \in armed : timer.id # handle}

\* store.ts: what data/echo-save.json is.  A document is a text that
\* JSON.stringify wrote, held as the value JSON.parse makes of it: every value
\* the objects hold is a finite number, a string, an array or a plain object
\* of these, which the two carry over unchanged.  The other kinds are a file
\* that does not exist, one that exists and cannot be read, and one whose
\* text does not parse.
NoFile == [kind |-> "absent", doc |-> <<>>]
UnreadableFile == [kind |-> "unreadable", doc |-> <<>>]
MalformedFile == [kind |-> "malformed", doc |-> <<>>]

\* Echo.toJSON, MemorySystem.toJSON, AgentEngine.toJSON
EchoToJSON(w) == w.echo

MemoryToJSON(w) == w.memories

AgentToJSON(w) == [logs |-> w.logs, tasks |-> w.tasks, chatHistory |-> w.chatHistory]

\* index.ts, router.ts: the data handed to save at time t
saveData(w, t) ==
    [ echo |-> EchoToJSON(w), memories |-> MemoryToJSON(w), agent |-> AgentToJSON(w),
      savedAt |-> t ]

\* store.ts, save: what writeFileSync (or mkdirSync before it) does.  It
\* writes the text, or throws having written nothing, or throws having
\* written a part of the text.
SaveOutcomes == {"written", "refused", "partial"}

saveThrows(outcome) == outcome # "written"

save(old, data, t, outcome) ==
    IF outcome = "written" THEN [kind |-> "document", doc |-> [data EXCEPT !.savedAt = t]]
    ELSE IF outcome = "partial" THEN MalformedFile
    ELSE old

\* store.ts, load: null when there is no file, and when reading or parsing
\* it throws
loadUncaught(f) ==
    [ threw |-> f.kind \in {"unreadable", "malformed"},
      null |-> f.kind = "absent",
      data |-> f.doc ]

load(f) ==
    [ threw |-> FALSE,
      null |-> f.kind # "document",
      data |-> f.doc ]

\* index.ts: new Echo(saved.echo), new MemorySystem(saved.memories),
\* new AgentEngine(saved.agent)
constructWithoutTasks(saved) ==
    [ echo |-> saved.echo, memories |-> saved.memories, logs |-> saved.agent.logs,
      tasks |-> <<>>, chatHistory |-> saved.agent.chatHistory ]

construct(saved) ==
    [ echo |-> saved.echo, memories |-> saved.memories, logs |-> saved.agent.logs,
      tasks |-> saved.agent.tasks, chatHistory |-> saved.agent.chatHistory ]

InitHist ==
    [ offline |-> -1, catchUpTicks |-> 0, catchUpAutos |-> 0, heartbeats |-> 0,
      liveAutos |-> 0, lastLiveAuto |-> -1, liveGap |-> -1, armed |-> 0,
      scanned |-> FALSE, sent |-> 0, calls |-> 0,
      bootTime |-> StartTime, restarts |-> 0, saved |-> <<>> ]

\* index.ts: the process starts at StartTime; the scheduler will be
\* constructed with the interval a
Boot(a) ==
    /\ file = NoFile
    /\ now = StartTime
    /\ echo = createDefaultState(StartTime)
    /\ memories = <<>>
    /\ logs = <<>>
    /\ tasks = <<>>
    /\ chatHistory = <<>>
    /\ config = [ tickIntervalMs |-> DefaultTickIntervalMs,
                  autonomousIntervalMs |-> a ]
    /\ lastTick = StartTime
    /\ lastAutonomous = StartTime
    /\ tickTimer = 0
    /\ timers = {}
    /\ pc = "load"
    /\ remaining = 0
    /\ op = [name |-> "init", by |-> "index"]
    /\ pre = echo
    /\ hist = InitHist

\* index.ts: load() and the construction of the objects from the snapshot
\* `boot` describes (fresh ones when it describes none)
Load(boots) ==
    /\ pc = "load"
    /\ \E boot \in boots : SetWorld(snapshot(boot))
    /\ pc' = "boot"
    /\ op' = [name |-> "load", by |-> "index"]
    /\ UNCHANGED <<file, now, schedVars, remaining, hist, pre>>

\* TimeEngine.start, first part: catchUp up to its loop
Start ==
    /\ pc = "boot"
    /\ LET offlineMs == now - echo.lastActive
       IN  IF catchUpSkips(offlineMs)
           THEN /\ UNCHANGED echo
                /\ remaining' = 0
                /\ op' = [name |-> "skip", by |-> "catchUp"]
                /\ hist' = [hist EXCEPT !.offline = offlineMs]
           ELSE /\ \E drift \in BOOLEAN, roll \in Rolls :
                      echo' = EchoTick(echo, offlineMs, now, drift, roll)
                /\ op' = [name |-> "tick", by |-> "catchUp", delta |-> offlineMs]
                /\ remaining' = autonomousCount(offlineMs, config)
                /\ hist' = [hist EXCEPT !.offline = offlineMs, !.catchUpTicks = @ + 1]
    /\ pc' = "catchUp"
    /\ UNCHANGED <<file, now, agentVars, schedVars, pre>>

\* catchUp: one iteration of its loop
CatchUpCycle ==
    /\ pc = "catchUp"
    /\ remaining > 0
    /\ \E coin \in BOOLEAN : SetWorld(autonomousAction(World, now, coin))
    /\ remaining' = remaining - 1
    /\ op' = [name |-> "autonomousAction", by |-> "catchUp", after |-> op.name,
              tasksBefore |-> Len(tasks), scannedBefore |-> hist.scanned]
    /\ hist' = [hist EXCEPT !.catchUpAutos = @ + 1, !.scanned = TRUE]
    /\ UNCHANGED <<file, now, schedVars, pc, pre>>

\* TimeEngine.start, last part: setInterval
ArmTimer ==
    /\ pc = "catchUp"
    /\ remaining = 0
    /\ tickTimer' = hist.armed + 1
    /\ timers' = timers \cup {[id |-> hist.armed + 1, due |-> now + config.tickIntervalMs]}
    /\ pc' = "idle"
    /\ op' = [name |-> "arm", by |-> "start"]
    /\ hist' = [hist EXCEPT !.armed = @ + 1]
    /\ UNCHANGED <<file, now, echo, agentVars, config, lastTick, lastAutonomous,
                   remaining, pre>>

\* an armed interval fires: TimeEngine.tick up to echo.tick
HeartbeatTick ==
    /\ pc \in {"idle", "stopped"}
    /\ \E timer \in timers :
          /\ timer.due <= now
          /\ timers' = (timers \ {timer})
                          \cup {[id |-> timer.id, due |-> now + config.tickIntervalMs]}
    /\ \E drift \in BOOLEAN, roll \in Rolls :
          echo' = EchoTick(echo, now - lastTick, now, drift, roll)
    /\ op' = [name |-> "tick", by |-> "heartbeat", delta |-> now - lastTick,
              from |-> pc]
    /\ lastTick' = now
    /\ pc' = "heartbeat"
    /\ hist' = [hist EXCEPT !.heartbeats = @ + 1]
    /\ UNCHANGED <<file, now, agentVars, config, lastAutonomous, tickTimer, remaining, pre>>

\* TimeEngine.tick: the autonomous cycle, when it is due
HeartbeatAutonomous ==
    /\ pc = "heartbeat"
    /\ autonomousDue(now - lastAutonomous, config)
    /\ lastAutonomous' = now
    /\ \E coin \in BOOLEAN : SetWorld(autonomousAction(World, now, coin))
    /\ pc' = op.from
    /\ op' = [name |-> "autonomousAction", by |-> "heartbeat", after |-> op.name,
              tasksBefore |-> Len(tasks), scannedBefore |-> hist.scanned,
              since |-> now - lastAutonomous]
    /\ hist' = [hist EXCEPT !.liveAutos = @ + 1,
                            !.lastLiveAuto = now,
                            !.liveGap = IF hist.lastLiveAuto = -1 THEN -1
                                        ELSE now - hist.lastLiveAuto,
                            !.scanned = TRUE]
    /\ UNCHANGED <<file, now, config, lastTick, tickTimer, timers, remaining, pre>>

\* TimeEngine.tick: no autonomous cycle is due
HeartbeatEnd ==
    /\ pc = "heartbeat"
    /\ ~autonomousDue(now - lastAutonomous, config)
    /\ pc' = op.from
    /\ op' = [name |-> "skip", by |-> "heartbeat", since |-> now - lastAutonomous]
    /\ UNCHANGED <<file, now, echo, agentVars, schedVars, remaining, hist, pre>>

\* index.ts, SIGINT: TimeEngine.stop; the process then leaves, so that no
\* request is served any more.  The runtime is kept going in the model, to
\* see what the scheduler has left armed.
Stop ==
    /\ pc = "idle"
    /\ IF tickTimer # 0
       THEN /\ timers' = clearInterval(timers, tickTimer)
            /\ tickTimer' = 0
       ELSE UNCHANGED <<timers, tickTimer>>
    /\ pc' = "stopped"
    /\ op' = [name |-> "stop", by |-> "index"]
    /\ UNCHANGED <<file, now, echo, agentVars, config, lastTick, lastAutonomous,
                   remaining, hist, pre>>

\* api/router.ts, POST /chat: AgentEngine.handleUserMessage
UserMessage ==
    /\ pc = "idle"
    /\ hist.sent < MaxMsgs
    /\ \E text \in MsgTexts, coin \in BOOLEAN :
          /\ SetWorld(handleUserMessage(World, text, now, coin).w)
          /\ op' = [name |-> "handleUserMessage", by |-> "router", text |-> text,
                    reply |-> handleUserMessage(World, text, now, coin).reply]
    /\ hist' = [hist EXCEPT !.scanned = FALSE, !.sent = @ + 1]
    /\ UNCHANGED <<file, now, schedVars, pc, remaining, pre>>

\* api/router.ts, GET /logs: AgentEngine.getRecentLogs
LogLimits == {DefaultLogsLimit}

GetRecentLogs ==
    /\ pc = "idle"
    /\ \E limit \in LogLimits :
          /\ logs' = getRecentLogsStore(logs, limit)
          /\ op' = [name |-> "getRecentLogs", by |-> "router", limit |-> limit,
                    ret |-> getRecentLogs(logs, limit)]
    /\ UNCHANGED <<file, now, echo, memories, tasks, chatHistory, schedVars, pc,
                   remaining, hist, pre>>

\* time passes while no handler runs
AdvanceClock ==
    /\ pc \in {"idle", "stopped"}
    /\ now + ClockStepMs <= StartTime + MaxClockSteps * ClockStepMs
    /\ now' = now + ClockStepMs
    /\ op' = [name |-> "clock", by |-> "runtime"]
    /\ UNCHANGED <<file, echo, agentVars, schedVars, pc, remaining, hist, pre>>

\* the snapshots the program starts from: none, and that of an entity nine
\* cycles old, saved 125 seconds ago
Boots ==
    { [gap |-> 0, cycles |-> 0, texts |-> <<>>],
      [gap |-> 125000, cycles |-> 9, texts |-> <<>>] }

Init == \E a \in AutonomousIntervals : Boot(a)

Next ==
    \/ Load(Boots)
    \/ Start
    \/ CatchUpCycle
    \/ ArmTimer
    \/ HeartbeatTick
    \/ HeartbeatAutonomous
    \/ HeartbeatEnd
    \/ Stop
    \/ UserMessage
    \/ GetRecentLogs
    \/ AdvanceClock

Spec == Init /\ [][Next]_vars

----------------------------------------------------------------------------
(* The start of the scheduler alone, over the offline gaps and the         *)
(* snapshots that decide what catchUp does.                                *)

Gaps == {0, 59999, 60000, 125000, 700000}

CatchUpBoots ==
    { [gap |-> g, cycles |-> 0, texts |-> x] :
          g \in Gaps, x \in {<<>>, <<T_hi>>, <<T_remind, T_remind>>} }

NextCatchUp ==
    \/ Load(CatchUpBoots)
    \/ Start
    \/ CatchUpCycle
    \/ ArmTimer

SpecCatchUp == Init /\ [][NextCatchUp]_vars

----------------------------------------------------------------------------
(* The operations of Echo alone: one call on an entity in any of the       *)
(* sampled states.                                                         *)

EnergySamples == {0, 1, LowEnergy - 1, LowEnergy, 50 * EnergyUnit,
                  MaxEnergy - 1, MaxEnergy}
LevelExpSamples == {<<1, 0>>, <<1, 95>>, <<2, 190>>}
DeltaSamples == {0, 10000, 700000, 30000000}
AmountSamples == {0, 5, 10, 100, 1000}
UnitRolls == 0..9

InitEcho ==
    /\ file = NoFile
    /\ now = StartTime
    /\ \E e \in EnergySamples, a \in Activities, m \in Moods, lx \in LevelExpSamples :
          echo = [createDefaultState(StartTime) EXCEPT
                      !.energy = e, !.activity = a, !.mood = m,
                      !.level = lx[1], !.exp = lx[2]]
    /\ memories = <<>>
    /\ logs = <<>>
    /\ tasks = <<>>
    /\ chatHistory = <<>>
    /\ config = [ tickIntervalMs |-> DefaultTickIntervalMs,
                  autonomousIntervalMs |-> DefaultAutonomousIntervalMs ]
    /\ lastTick = StartTime
    /\ lastAutonomous = StartTime
    /\ tickTimer = 0
    /\ timers = {}
    /\ pc = "unit"
    /\ remaining = 0
    /\ op = [name |-> "init", by |-> "unit"]
    /\ pre = echo
    /\ hist = InitHist

unitFrame == <<file, now, agentVars, schedVars, remaining, hist>>

UnitTick ==
    /\ pc = "unit"
    /\ \E d \in DeltaSamples, drift \in BOOLEAN, roll \in UnitRolls :
          /\ echo' = EchoTick(echo, d, now, drift, roll)
          /\ op' = [name |-> "tick", by |-> "unit", delta |-> d,
                    drift |-> drift, roll |-> roll]
    /\ pre' = echo
    /\ pc' = "done"
    /\ UNCHANGED unitFrame

UnitAddExp ==
    /\ pc = "unit"
    /\ \E amount \in AmountSamples :
          /\ echo' = addExp(echo, amount)
          /\ op' = [name |-> "addExp", by |-> "unit", amount |-> amount,
                    ret |-> leveledUp(echo, amount)]
    /\ pre' = echo
    /\ pc' = "done"
    /\ UNCHANGED unitFrame

UnitOnUserInteraction ==
    /\ pc = "unit"
    /\ echo' = onUserInteraction(echo)
    /\ op' = [name |-> "onUserInteraction", by |-> "unit"]
    /\ pre' = echo
    /\ pc' = "done"
    /\ UNCHANGED unitFrame

UnitSetActivity ==
    /\ pc = "unit"
    /\ \E a \in Activities :
          /\ echo' = setActivity(echo, a)
          /\ op' = [name |-> "setActivity", by |-> "unit", activity |-> a]
    /\ pre' = echo
    /\ pc' = "done"
    /\ UNCHANGED unitFrame

\* AgentEngine.autonomousAction on the entity, with an empty memory store
\* and no chat
UnitAutonomousAction ==
    /\ pc = "unit"
    /\ \E coin \in BOOLEAN :
          /\ SetWorld(autonomousAction(World, now, coin))
          /\ op' = [name |-> "autonomousAction", by |-> "unit", coin |-> coin]
    /\ pre' = echo
    /\ pc' = "done"
    /\ UNCHANGED <<file, now, schedVars, remaining, hist>>

\* AgentEngine.handleUserMessage on the entity, at most twice in a row
UnitTexts == {T_hi, <<"ji", "de", "he", "shui">>}

UnitHandleUserMessage ==
    /\ pc \in {"unit", "chat"}
    /\ \E text \in UnitTexts, coin \in BOOLEAN :
          /\ SetWorld(handleUserMessage(World, text, now, coin).w)
          /\ op' = [name |-> "handleUserMessage", by |-> "unit", text |-> text,
                    reply |-> chatHistory'[Len(chatHistory')].content]
    /\ pre' = echo
    /\ pc' = IF pc = "unit" THEN "chat" ELSE "done"
    /\ UNCHANGED <<file, now, schedVars, remaining, hist>>

NextEcho ==
    \/ UnitTick
    \/ UnitAddExp
    \/ UnitOnUserInteraction
    \/ UnitSetActivity
    \/ UnitAutonomousAction
    \/ UnitHandleUserMessage

SpecEcho == InitEcho /\ [][NextEcho]_vars

----------------------------------------------------------------------------
(* The operations of MemorySystem alone, on a store that starts empty.     *)

\* a process with fresh objects, about to make calls on them
InitUnit ==
    /\ file = NoFile
    /\ now = StartTime
    /\ echo = createDefaultState(StartTime)
    /\ memories = <<>>
    /\ logs = <<>>
    /\ tasks = <<>>
    /\ chatHistory = <<>>
    /\ config = [ tickIntervalMs |-> DefaultTickIntervalMs,
                  autonomousIntervalMs |-> DefaultAutonomousIntervalMs ]
    /\ lastTick = StartTime
    /\ lastAutonomous = StartTime
    /\ tickTimer = 0
    /\ timers = {}
    /\ pc = "unit"
    /\ remaining = 0
    /\ op = [name |-> "init", by |-> "unit"]
    /\ pre = echo
    /\ hist = InitHist

\* texts for MemorySystem.add: a keyword part followed by filler up to a
\* total length
Filler(n) == [i \in 1..n |-> "x"]
KeywordPool == << <<"xiang">>, <<"meng", "xiang">>, <<"kai", "xin">>, <<"zhong", "yao">> >>

RECURSIVE Concat(_)
Concat(words) == IF words = <<>> THEN <<>> ELSE Head(words) \o Concat(Tail(words))

KeywordParts ==
    { Concat(SelectSeq(KeywordPool, LAMBDA w : w \in chosen)) :
          chosen \in SUBSET {KeywordPool[k] : k \in 1..Len(KeywordPool)} }
        \cup {Concat(emotionalWords)}
TextLengths == {8, 20, 21, 50, 51, 60, 100, 101}
SizedTexts ==
    { pn[1] \o Filler(pn[2] - Len(pn[1])) :
          pn \in {x \in KeywordParts \X TextLengths : x[2] >= Len(x[1])} }

\* MemorySystem.add(text) on the empty store
UnitAdd ==
    /\ pc = "unit"
    /\ \E text \in SizedTexts :
          /\ memories' = memoryAdd(memories, text, now)
          /\ op' = [name |-> "add", by |-> "unit", text |-> text]
    /\ pc' = "done"
    /\ UNCHANGED <<file, now, echo, logs, tasks, chatHistory, schedVars, remaining,
                   pre, hist>>

NextAdd == UnitAdd

SpecAdd == InitUnit /\ [][NextAdd]_vars

----------------------------------------------------------------------------
(* MemorySystem over time: entries added at different ages and recalled.   *)

\* bounds of the model
MaxMemories == 3        \* entries added to the store
MaxRecalls == 2         \* calls of getRelated

T_this == <<"t", "h", "i", "s">>
T_want == <<"xiang", "yao">>
MemTexts == {T_hi, T_this, T_want}
MemQueries == {T_hi}
MemLimits == {0, 1, 5}
\* the clock moves once, by the span over which the recency factor
\* 1 - ageHours * 0.01 falls from 1 to 0
MemClockStepMs == RecencySpan
MemMaxAgeMs == RecencySpan

MemAdd ==
    /\ pc = "unit"
    /\ Len(memories) < MaxMemories
    /\ \E text \in MemTexts :
          /\ memories' = memoryAdd(memories, text, now)
          /\ op' = [name |-> "add", by |-> "unit", text |-> text]
    /\ UNCHANGED <<file, now, echo, logs, tasks, chatHistory, schedVars, pc, remaining,
                   pre, hist>>

MemGetRelated ==
    /\ pc = "unit"
    /\ hist.calls < MaxRecalls
    /\ \E query \in MemQueries, limit \in MemLimits :
          /\ memories' = getRelatedStore(memories, query, limit, now)
          /\ op' = [name |-> "getRelated", by |-> "unit", query |-> query,
                    limit |-> limit, before |-> memories,
                    ret |-> getRelated(memories, query, limit, now)]
    /\ hist' = [hist EXCEPT !.calls = @ + 1]
    /\ UNCHANGED <<file, now, echo, logs, tasks, chatHistory, schedVars, pc, remaining,
                   pre>>

MemClock ==
    /\ pc = "unit"
    /\ now + MemClockStepMs <= StartTime + MemMaxAgeMs
    /\ now' = now + MemClockStepMs
    /\ op' = [name |-> "clock", by |-> "runtime"]
    /\ UNCHANGED <<file, echo, agentVars, schedVars, pc, remaining, pre, hist>>

\* the reads of the store; the model follows a run no further than a read
RecentLimits == {1, DefaultRecentLimit}
ImportantLimits == {1, DefaultImportantLimit}

MemGetRecent ==
    /\ pc = "unit"
    /\ \E limit \in RecentLimits :
          /\ memories' = getRecentStore(memories, limit)
          /\ op' = [name |-> "getRecent", by |-> "unit", limit |-> limit,
                    before |-> memories, ret |-> getRecent(memories, limit)]
    /\ pc' = "done"
    /\ UNCHANGED <<file, now, echo, logs, tasks, chatHistory, schedVars, remaining,
                   pre, hist>>

MemGetImportant ==
    /\ pc = "unit"
    /\ \E limit \in ImportantLimits :
          /\ memories' = getImportantStore(memories, limit)
          /\ op' = [name |-> "getImportant", by |-> "unit", limit |-> limit,
                    before |-> memories, ret |-> getImportant(memories, limit)]
    /\ pc' = "done"
    /\ UNCHANGED <<file, now, echo, logs, tasks, chatHistory, schedVars, remaining,
                   pre, hist>>

MemSummarize ==
    /\ pc = "unit"
    /\ memories' = summarizeStore(memories)
    /\ op' = [name |-> "summarize", by |-> "unit", before |-> memories,
              ret |-> summarize(memories)]
    /\ pc' = "done"
    /\ UNCHANGED <<file, now, echo, logs, tasks, chatHistory, schedVars, remaining,
                   pre, hist>>

NextMemory ==
    \/ MemAdd
    \/ MemGetRelated
    \/ MemGetRecent
    \/ MemGetImportant
    \/ MemSummarize
    \/ MemClock

SpecMemory == InitUnit /\ [][NextMemory]_vars

----------------------------------------------------------------------------
(* The operations of AgentEngine, called in any order on fresh objects.    *)

\* bound of the model
MaxCycles == 2          \* calls of autonomousAction

T_drink == <<"ji", "de", "he", "shui">>
AgentTexts == {T_hi, T_remind, T_drink}
HistoryLimits == {0, 1, 2, 50}
\* the clock moves once, by the delay after which a task falls due
AgentClockStepMs == TaskDelayMs
AgentMaxAgeMs == TaskDelayMs
\* an id no task has
NoTaskId == genId("task", 0, 0)

AgentMessage ==
    /\ pc = "unit"
    /\ Len(chatHistory) < 2 * MaxMsgs
    /\ \E text \in AgentTexts, coin \in BOOLEAN :
          /\ SetWorld(handleUserMessage(World, text, now, coin).w)
          /\ op' = [name |-> "handleUserMessage", by |-> "unit", text |-> text,
                    reply |-> handleUserMessage(World, text, now, coin).reply]
    /\ UNCHANGED <<file, now, schedVars, pc, remaining, pre, hist>>

AgentCycle ==
    /\ pc = "unit"
    /\ Len(logs) < MaxCycles
    /\ \E coin \in BOOLEAN : SetWorld(autonomousAction(World, now, coin))
    /\ op' = [name |-> "autonomousAction", by |-> "unit", before |-> tasks]
    /\ UNCHANGED <<file, now, schedVars, pc, remaining, pre, hist>>

AgentCompleteTask ==
    /\ pc = "unit"
    /\ \E taskId \in {tasks[k].id : k \in 1..Len(tasks)} \cup {NoTaskId} :
          /\ tasks' = completeTask(tasks, taskId)
          /\ op' = [name |-> "completeTask", by |-> "unit", taskId |-> taskId]
    /\ UNCHANGED <<file, now, echo, memories, logs, chatHistory, schedVars, pc,
                   remaining, pre, hist>>

AgentGetDueTasks ==
    /\ pc = "unit"
    /\ op' = [name |-> "getDueTasks", by |-> "unit", ret |-> getDueTasks(tasks, now)]
    /\ pc' = "done"
    /\ UNCHANGED <<file, now, echo, agentVars, schedVars, remaining, pre, hist>>

AgentGetChatHistory ==
    /\ pc = "unit"
    /\ \E limit \in HistoryLimits :
          op' = [name |-> "getChatHistory", by |-> "unit", limit |-> limit,
                 ret |-> getChatHistory(chatHistory, limit)]
    /\ pc' = "done"
    /\ UNCHANGED <<file, now, echo, agentVars, schedVars, remaining, pre, hist>>

AgentClock ==
    /\ pc = "unit"
    /\ now + AgentClockStepMs <= StartTime + AgentMaxAgeMs
    /\ now' = now + AgentClockStepMs
    /\ op' = [name |-> "clock", by |-> "runtime"]
    /\ UNCHANGED <<file, echo, agentVars, schedVars, pc, remaining, pre, hist>>

NextAgent ==
    \/ AgentMessage
    \/ AgentCycle
    \/ AgentCompleteTask
    \/ AgentGetDueTasks
    \/ AgentGetChatHistory
    \/ AgentClock

SpecAgent == InitUnit /\ [][NextAgent]_vars

----------------------------------------------------------------------------
(* Conversations with a brand-new entity: messages only.                   *)

\* bound of the model
MaxChats == 3           \* calls of handleUserMessage

ChatTexts == {T_hi, T_this, T_want}

ChatMessage ==
    /\ pc = "unit"
    /\ Len(chatHistory) < 2 * MaxChats
    /\ \E text \in ChatTexts, coin \in BOOLEAN :
          /\ SetWorld(handleUserMessage(World, text, now, coin).w)
          /\ op' = [name |-> "handleUserMessage", by |-> "unit", text |-> text,
                    reply |-> handleUserMessage(World, text, now, coin).reply]
    /\ UNCHANGED <<file, now, schedVars, pc, remaining, pre, hist>>

\* memory.getRelated("hi") with the default limit, asked once the
\* conversation is over
ChatGetRelated ==
    /\ pc = "unit"
    /\ memories' = getRelatedStore(memories, T_hi, DefaultRelatedLimit, now)
    /\ op' = [name |-> "getRelated", by |-> "unit", query |-> T_hi,
              limit |-> DefaultRelatedLimit, before |-> memories,
              ret |-> getRelated(memories, T_hi, DefaultRelatedLimit, now)]
    /\ pc' = "done"
    /\ UNCHANGED <<file, now, echo, logs, tasks, chatHistory, schedVars, remaining,
                   pre, hist>>

ChatClock ==
    /\ pc = "unit"
    /\ now + AgentClockStepMs <= StartTime + AgentMaxAgeMs
    /\ now' = now + AgentClockStepMs
    /\ op' = [name |-> "clock", by |-> "runtime"]
    /\ UNCHANGED <<file, echo, agentVars, schedVars, pc, remaining, pre, hist>>

NextChat ==
    \/ ChatMessage
    \/ ChatGetRelated
    \/ ChatClock

SpecChat == InitUnit /\ [][NextChat]_vars

----------------------------------------------------------------------------
(* The program with its snapshot file: it loads at start, saves after      *)
(* every chat, every thirty seconds and on SIGINT, and is started again     *)
(* after it has left.                                                       *)

MaxRestarts == 1        \* times the process is started again
MaxStoreMsgs == 1       \* user messages sent over all the runs of the process

FilesAtStart == {NoFile, UnreadableFile, MalformedFile}

InitStore ==
    /\ file \in FilesAtStart
    /\ now = StartTime
    /\ echo = createDefaultState(StartTime)
    /\ memories = <<>>
    /\ logs = <<>>
    /\ tasks = <<>>
    /\ chatHistory = <<>>
    /\ config = [ tickIntervalMs |-> DefaultTickIntervalMs,
                  autonomousIntervalMs |-> DefaultAutonomousIntervalMs ]
    /\ lastTick = StartTime
    /\ lastAutonomous = StartTime
    /\ tickTimer = 0
    /\ timers = {}
    /\ pc = "load"
    /\ remaining = 0
    /\ op = [name |-> "init", by |-> "index"]
    /\ pre = echo
    /\ hist = InitHist

\* the draws made in these runs: the mood is not made to drift, and the
\* coin of the autonomous cycle and of the reply falls one way
StoreDrifts == {FALSE}
StoreCoins == {TRUE}

\* TimeEngine.catchUp: its loop
RECURSIVE catchUpCycles(_, _, _, _)
catchUpCycles(w, n, t, coin) ==
    IF n = 0 THEN w
    ELSE catchUpCycles(autonomousAction(w, t, coin), n - 1, t, coin)

\* TimeEngine.catchUp
catchUp(w, t, cfg, drift, roll, coin) ==
    LET offlineMs == t - w.echo.lastActive
    IN  IF catchUpSkips(offlineMs) THEN w
        ELSE catchUpCycles([w EXCEPT !.echo = EchoTick(w.echo, offlineMs, t, drift, roll)],
                           autonomousCount(offlineMs, cfg), t, coin)

\* index.ts, the start of the process: load(), the construction of the
\* objects from the snapshot or fresh, and TimeEngine.start
StoreBoot ==
    /\ pc = "load"
    /\ LET saved == load(file)
           w == IF saved.null THEN freshWorld(now) ELSE construct(saved.data)
       IN  IF saved.threw
           THEN /\ pc' = "crashed"
                /\ op' = [name |-> "load", by |-> "index", fresh |-> FALSE,
                          loaded |-> World]
                /\ UNCHANGED <<echo, agentVars, tickTimer, timers, hist>>
           ELSE /\ \E drift \in StoreDrifts, coin \in StoreCoins :
                      SetWorld(catchUp(w, now, config, drift, 0, coin))
                /\ op' = [name |-> "load", by |-> "index", fresh |-> saved.null,
                          loaded |-> w]
                /\ tickTimer' = hist.armed + 1
                /\ timers' = {[id |-> hist.armed + 1, due |-> now + config.tickIntervalMs]}
                /\ pc' = "idle"
                /\ hist' = [hist EXCEPT !.armed = @ + 1]
    /\ UNCHANGED <<file, now, config, lastTick, lastAutonomous, remaining, pre>>

\* the armed interval fires: TimeEngine.tick
StoreHeartbeat ==
    /\ pc = "idle"
    /\ \E timer \in timers :
          /\ timer.due <= now
          /\ timers' = (timers \ {timer})
                          \cup {[id |-> timer.id, due |-> now + config.tickIntervalMs]}
    /\ \E drift \in StoreDrifts, coin \in StoreCoins :
          LET ticked == [World EXCEPT
                             !.echo = EchoTick(echo, now - lastTick, now, drift, 0)]
          IN  IF autonomousDue(now - lastAutonomous, config)
              THEN /\ SetWorld(autonomousAction(ticked, now, coin))
                   /\ lastAutonomous' = now
              ELSE /\ SetWorld(ticked)
                   /\ UNCHANGED lastAutonomous
    /\ lastTick' = now
    /\ op' = [name |-> "tick", by |-> "heartbeat", delta |-> now - lastTick]
    /\ hist' = [hist EXCEPT !.heartbeats = @ + 1]
    /\ UNCHANGED <<file, now, config, tickTimer, pc, remaining, pre>>

\* api/router.ts, POST /chat: handleUserMessage, then save.  When save
\* throws, the framework catches it and answers the request with an error.
StoreChat ==
    /\ pc = "idle"
    /\ hist.sent < MaxStoreMsgs
    /\ \E text \in MsgTexts, coin \in StoreCoins :
          SetWorld(handleUserMessage(World, text, now, coin).w)
    /\ \E outcome \in SaveOutcomes :
          /\ file' = save(file, saveData(WorldAfter, now), now, outcome)
          /\ op' = [name |-> "save", by |-> "router", ok |-> ~saveThrows(outcome),
                    held |-> WorldAfter]
          /\ hist' = [hist EXCEPT !.scanned = FALSE, !.sent = @ + 1,
                                  !.saved = IF saveThrows(outcome) THEN @ ELSE WorldAfter]
    /\ UNCHANGED <<now, schedVars, pc, remaining, pre>>

\* index.ts, the 30 s interval: save.  When save throws, nothing catches it
\* in the callback and the runtime ends the process.
StoreAutosave ==
    /\ pc = "idle"
    /\ now >= hist.bootTime + AutosaveIntervalMs
    /\ \E outcome \in SaveOutcomes :
          /\ file' = save(file, saveData(World, now), now, outcome)
          /\ op' = [name |-> "save", by |-> "autosave", ok |-> ~saveThrows(outcome),
                    held |-> World]
          /\ hist' = [hist EXCEPT !.saved = IF saveThrows(outcome) THEN @ ELSE World]
          /\ pc' = IF saveThrows(outcome) THEN "crashed" ELSE "idle"
          /\ timers' = IF saveThrows(outcome) THEN {} ELSE timers
    /\ UNCHANGED <<now, echo, agentVars, config, lastTick, lastAutonomous, tickTimer,
                   remaining, pre>>

\* index.ts, SIGINT: TimeEngine.stop, save, process.exit
StoreSigint ==
    /\ pc = "idle"
    /\ \E outcome \in SaveOutcomes :
          /\ file' = save(file, saveData(World, now), now, outcome)
          /\ op' = [name |-> "save", by |-> "sigint", ok |-> ~saveThrows(outcome),
                    held |-> World]
          /\ hist' = [hist EXCEPT !.saved = IF saveThrows(outcome) THEN @ ELSE World]
          /\ pc' = IF saveThrows(outcome) THEN "crashed" ELSE "exited"
    /\ timers' = {}
    /\ tickTimer' = 0
    /\ UNCHANGED <<now, echo, agentVars, config, lastTick, lastAutonomous,
                   remaining, pre>>

\* the process is down: time passes
StoreOffline ==
    /\ pc \in {"exited", "crashed"}
    /\ now + ClockStepMs <= StartTime + MaxClockSteps * ClockStepMs
    /\ now' = now + ClockStepMs
    /\ op' = [name |-> "clock", by |-> "runtime"]
    /\ UNCHANGED <<file, echo, agentVars, schedVars, pc, remaining, hist, pre>>

\* the process is down: the file is damaged, or made unreadable
StoreDamage ==
    /\ pc \in {"exited", "crashed"}
    /\ file.kind = "document"
    /\ file' \in {UnreadableFile, MalformedFile}
    /\ op' = [name |-> "damage", by |-> "environment"]
    /\ UNCHANGED <<now, echo, agentVars, schedVars, pc, remaining, hist, pre>>

\* index.ts: the program is started again; new TimeEngine(...)
StoreRestart ==
    /\ pc \in {"exited", "crashed"}
    /\ hist.restarts < MaxRestarts
    /\ SetWorld(freshWorld(now))
    /\ lastTick' = now
    /\ lastAutonomous' = now
    /\ tickTimer' = 0
    /\ timers' = {}
    /\ pc' = "load"
    /\ op' = [name |-> "init", by |-> "index"]
    /\ hist' = [hist EXCEPT !.restarts = @ + 1, !.bootTime = now]
    /\ UNCHANGED <<file, now, config, remaining, pre>>

NextStore ==
    \/ StoreBoot
    \/ StoreHeartbeat
    \/ StoreChat
    \/ StoreAutosave
    \/ StoreSigint
    \/ StoreOffline
    \/ StoreDamage
    \/ StoreRestart
    \/ AdvanceClock

SpecStore == InitStore /\ [][NextStore]_vars

----------------------------------------------------------------------------------------------------------------------------------------
(* The scan of the chat history: an engine constructed with a saved        *)
(* history of nine to eleven user messages, the oldest of them carrying an *)
(* intent, then messages and autonomous cycles.                            *)

T_both == <<"wo", "xiang", "ji", "de", "he", "shui">>
T_blank == <<"wo", "xiang", "ji", "de", " ">>
ScanTexts == {T_hi, T_both, T_blank}

ScanBoots ==
    { [gap |-> 0, cycles |-> 0, texts |-> <<T_remind>> \o [i \in 1..n |-> T_hi]] :
        n \in (ScanWindow - 2)..ScanWindow }

InitScan ==
    /\ file = NoFile
    /\ now = StartTime
    /\ echo = createDefaultState(StartTime)
    /\ memories = <<>>
    /\ logs = <<>>
    /\ tasks = <<>>
    /\ chatHistory = <<>>
    /\ config = [ tickIntervalMs |-> DefaultTickIntervalMs,
                  autonomousIntervalMs |-> DefaultAutonomousIntervalMs ]
    /\ lastTick = StartTime
    /\ lastAutonomous = StartTime
    /\ tickTimer = 0
    /\ timers = {}
    /\ pc = "load"
    /\ remaining = 0
    /\ op = [name |-> "init", by |-> "unit"]
    /\ pre = echo
    /\ hist = InitHist

\* new AgentEngine(saved), new MemorySystem(saved.memories), new Echo(saved.echo)
ScanLoad ==
    /\ pc = "load"
    /\ \E boot \in ScanBoots : SetWorld(snapshot(boot))
    /\ pc' = "unit"
    /\ op' = [name |-> "load", by |-> "unit"]
    /\ UNCHANGED <<file, now, schedVars, remaining, pre, hist>>

ScanMessage ==
    /\ pc = "unit"
    /\ hist.sent < MaxMsgs
    /\ \E text \in ScanTexts, coin \in BOOLEAN :
          /\ SetWorld(handleUserMessage(World, text, now, coin).w)
          /\ op' = [name |-> "handleUserMessage", by |-> "unit", text |-> text]
    /\ hist' = [hist EXCEPT !.sent = @ + 1]
    /\ UNCHANGED <<file, now, schedVars, pc, remaining, pre>>

ScanCycle ==
    /\ pc = "unit"
    /\ Len(logs) < MaxCycles
    /\ \E coin \in BOOLEAN : SetWorld(autonomousAction(World, now, coin))
    /\ op' = [name |-> "autonomousAction", by |-> "unit", before |-> tasks]
    /\ UNCHANGED <<file, now, schedVars, pc, remaining, pre, hist>>

NextScan ==
    \/ ScanLoad
    \/ ScanMessage
    \/ ScanCycle

SpecScan == InitScan /\ [][NextScan]_vars

----------------------------------------------------------------------------
(* The scheduler started after a long absence: the program is started at   *)
(* once or five hours after the snapshot was written, catches up, and its  *)
(* heartbeat runs for a few minutes.                                       *)

LongGapMs == 5 * 3600 * 1000
SleepClockStepMs == DefaultAutonomousIntervalMs \div 2

InitSleep ==
    /\ file = NoFile
    /\ now \in {StartTime, StartTime + LongGapMs}
    /\ echo = createDefaultState(StartTime)
    /\ memories = <<>>
    /\ logs = <<>>
    /\ tasks = <<>>
    /\ chatHistory = <<>>
    /\ config = [ tickIntervalMs |-> DefaultTickIntervalMs,
                  autonomousIntervalMs |-> DefaultAutonomousIntervalMs ]
    /\ lastTick = now
    /\ lastAutonomous = now
    /\ tickTimer = 0
    /\ timers = {}
    /\ pc = "load"
    /\ remaining = 0
    /\ op = [name |-> "init", by |-> "index"]
    /\ pre = echo
    /\ hist = InitHist

\* time passes while no handler runs
SleepClock ==
    /\ pc = "idle"
    /\ hist.heartbeats < MaxClockSteps
    /\ \A timer \in timers : timer.due > now
    /\ now' = now + SleepClockStepMs
    /\ op' = [name |-> "clock", by |-> "runtime"]
    /\ UNCHANGED <<file, echo, agentVars, schedVars, pc, remaining, hist, pre>>

NextSleep ==
    \/ Load(Boots)
    \/ Start
    \/ CatchUpCycle
    \/ ArmTimer
    \/ HeartbeatTick
    \/ HeartbeatAutonomous
    \/ HeartbeatEnd
    \/ SleepClock

SpecSleep == InitSleep /\ [][NextSleep]_vars

----------------------------------------------------------------------------
(* One scheduler whose start() and stop() are called in any order, start() *)
(* taken whole: catchUp, then setInterval.                                 *)

MaxStarts == 2          \* calls of start() on the scheduler

TimerStart ==
    /\ pc \in {"boot", "idle", "stopped"}
    /\ hist.armed < MaxStarts
    /\ \E drift \in StoreDrifts, coin \in StoreCoins :
          SetWorld(catchUp(World, now, config, drift, 0, coin))
    /\ tickTimer' = hist.armed + 1
    /\ timers' = timers \cup {[id |-> hist.armed + 1, due |-> now + config.tickIntervalMs]}
    /\ pc' = "idle"
    /\ op' = [name |-> "start", by |-> "index", from |-> pc]
    /\ hist' = [hist EXCEPT !.armed = @ + 1]
    /\ UNCHANGED <<file, now, config, lastTick, lastAutonomous, remaining, pre>>

NextTimer ==
    \/ Load(Boots)
    \/ TimerStart
    \/ Stop
    \/ HeartbeatTick
    \/ HeartbeatAutonomous
    \/ HeartbeatEnd
    \/ AdvanceClock

SpecTimer == Init /\ [][NextTimer]_vars

----------------
(* The claims.                                                             *)

EnergyInRange(e) == 0 <= e /\ e <= MaxEnergy

C2_LowEnergyForcesSleepy ==
    (op.name = "tick" /\ echo.energy < LowEnergy)
        => (echo.mood = "sleepy" /\ echo.activity = "sleeping")

\* C3: in every state reached from a fresh entity by heartbeat ticks,
\* autonomous cycles and user messages, 0 <= exp < level * 100 and level >= 1.
C3_ExpWithinLevel ==
    /\ echo.level >= 1
    /\ 0 <= echo.exp
    /\ echo.exp < echo.level * 100

\* a level-up has happened, and ticks, cycles and messages have all acted
C3_Witness ==
    /\ echo.level = 2
    /\ hist.heartbeats > 0
    /\ hist.liveAutos > 0
    /\ hist.sent > 0

C4_Case == op.name = "addExp" /\ op.amount = 100 /\ pre.level = 1 /\ pre.exp = 95

\* C4 as stated: addExp(100) on a level-1 entity with exp 95 leaves exp = 5
\* and level = 2.
C4_AsStated == C4_Case => (echo.exp = 5 /\ echo.level = 2)

\* C4, amended: addExp(100) on a level-1 entity with exp 95 leaves exp = 95
\* (195 less the threshold 100, taken off once) and level = 2.
C4_LeavesNinetyFive == C4_Case => (echo.exp = 95 /\ echo.level = 2)

C4_Witness == C4_Case /\ echo.level = 2

CatchUpDone == pc = "idle" /\ op.name = "arm"

\* C5: when elapsed >= 60 s at start, catch-up runs autonomousAction
\* min(10, floor(elapsed / autonomousIntervalSeconds)) times, for every
\* configured autonomous interval.
C5_CountFollowsConfiguredInterval ==
    (CatchUpDone /\ hist.offline >= 60000)
        => hist.catchUpAutos = Min(10, hist.offline \div config.autonomousIntervalMs)

\* C6: with the autonomous interval at 60 s, catch-up after a 125 s gap runs
\* exactly 2 cycles and after a 700 s gap exactly 10; it never runs more
\* than 10.
C6_CatchUpCounts ==
    /\ hist.catchUpAutos <= 10
    /\ (CatchUpDone /\ config.autonomousIntervalMs = 60000 /\ hist.offline = 125000)
          => hist.catchUpAutos = 2
    /\ (CatchUpDone /\ config.autonomousIntervalMs = 60000 /\ hist.offline = 700000)
          => hist.catchUpAutos = 10

C6_Witness ==
    /\ CatchUpDone
    /\ config.autonomousIntervalMs = 60000
    /\ hist.offline = 700000
    /\ hist.catchUpAutos = 10

\* C7: when less than 60 s have elapsed since lastActive at start, no step
\* of start() changes the entity, the memory store or the agent's logs,
\* tasks and chat history.
C7_ShortGapCatchUpIsNoOp ==
    [][ ( \/ pc = "boot" /\ now - echo.lastActive < 60000
          \/ pc = "catchUp" /\ hist.offline < 60000 )
        => UNCHANGED <<echo, memories, logs, tasks, chatHistory>> ]_vars

\* start() has returned after a gap just short of 60 s, with a chat history
\* that a cycle would have turned into a task
C7_Witness ==
    /\ CatchUpDone
    /\ hist.offline = 59999
    /\ chatHistory # <<>>
    /\ tasks = <<>>

C9_NoHeartbeatAfterStop ==
    [][ /\ pc = "stopped"
            => /\ hist'.heartbeats = hist.heartbeats
               /\ hist'.liveAutos = hist.liveAutos
               /\ UNCHANGED <<echo, logs, tasks, lastTick, lastAutonomous>>
        /\ pc' = "stopped" /\ pc # "stopped"
            => /\ pc = "idle"
               /\ tickTimer' = 0
               /\ UNCHANGED <<echo, memories, logs, tasks, chatHistory,
                              lastTick, lastAutonomous>> ]_vars

\* stopped after a heartbeat, and a full tick interval has gone by since
C9_Witness ==
    /\ pc = "stopped"
    /\ hist.heartbeats >= 1
    /\ now >= lastTick + config.tickIntervalMs

PendingWith(text) ==
    {k \in 1..Len(tasks) : tasks[k].content = text /\ tasks[k].status = "pending"}

SubmittedIntents ==
    {extractTaskIntent(chatHistory[k].content).text :
        k \in {j \in 1..Len(chatHistory) :
                  /\ chatHistory[j].role = "user"
                  /\ truthy(extractTaskIntent(chatHistory[j].content))}}

\* C10: when the same task-intent text is submitted twice and autonomous
\* cycles run, exactly one pending Task with the extracted text exists;
\* a cycle run with no new user message since the last one creates no task.
C10_OneTaskPerIntent ==
    /\ \A text \in SubmittedIntents :
          /\ Cardinality(PendingWith(text)) <= 1
          /\ hist.scanned => Cardinality(PendingWith(text)) = 1
    /\ (op.name = "autonomousAction" /\ op.scannedBefore)
          => Len(tasks) = op.tasksBefore

\* the same text twice, then two cycles
C10_Witness ==
    /\ Cardinality({k \in 1..Len(chatHistory) :
                       /\ chatHistory[k].role = "user"
                       /\ chatHistory[k].content = T_remind}) = 2
    /\ hist.liveAutos = 2
    /\ op.name = "autonomousAction"
    /\ op.scannedBefore
    /\ Cardinality(PendingWith(<<"mai", "nai">>)) = 1

\* the emotional keywords a text contains
KeywordHits(text) ==
    Cardinality({k \in 1..Len(emotionalWords) : includes(text, emotionalWords[k])})

C12_Case == op.name = "add" /\ Len(memories) = 1

ScorePositive(m, query, t) ==
    LET sc == score(m, extractTags(query), t)
    IN  sc[1] > 0 \/ (sc[1] = 0 /\ sc[2] > 0)

\* the positions of the store whose entry getRelated returned
Returned == {i \in 1..Len(memories) : \E k \in 1..Len(op.ret) : op.ret[k].id = memories[i].id}

\* C11: getRelated(query, limit) returns no entry whose score is <= 0; every
\* entry it returns has its recall count raised by exactly 1 and its
\* last-recall time set to the time of the call; every other stored entry is
\* unchanged, and no entry is added or removed.
C11_GetRelatedFrame ==
    op.name = "getRelated" =>
        /\ Len(memories) = Len(op.before)
        /\ \A k \in 1..Len(op.ret) : \E i \in Returned : op.ret[k] = memories[i]
        /\ \A k, l \in 1..Len(op.ret) : op.ret[k].id = op.ret[l].id => k = l
        /\ \A i \in Returned :
              /\ ScorePositive(op.before[i], op.query, now)
              /\ memories[i] = [op.before[i] EXCEPT !.recallCount = @ + 1,
                                                    !.lastRecallTime = now]
        /\ \A i \in (1..Len(memories)) \ Returned : memories[i] = op.before[i]

\* a call that returned an entry recalled before, left out an entry of
\* positive score for the limit, and left out an entry of score 0
C11_Witness ==
    /\ op.name = "getRelated"
    /\ \E i \in Returned : op.before[i].recallCount = 1 /\ op.before[i].lastRecallTime < now
    /\ \E i \in (1..Len(memories)) \ Returned : ScorePositive(op.before[i], op.query, now)
    /\ \E i \in (1..Len(memories)) \ Returned : ~ScorePositive(op.before[i], op.query, now)

\* the conversation so far is three exchanges of "hi"
ThreeHi ==
    /\ Len(chatHistory) = 6
    /\ \A k \in {1, 3, 5} : chatHistory[k].role = "user" /\ chatHistory[k].content = T_hi

\* C13: a brand-new entity that receives "hi" takes the greeting branch and
\* its reply holds its age description; after 3 such exchanges the memory
\* count is 3 and getRelated("hi") returns at least one entry.
C13_HiGreeting ==
    /\ (op.name = "handleUserMessage" /\ op.text = T_hi)
          => /\ op.reply.body = [kind |-> "age", age |-> getAgeDescription(echo)]
             /\ chatHistory[Len(chatHistory)].content = op.reply
    /\ ThreeHi => Len(memories) = 3
    /\ (ThreeHi /\ op.name = "getRelated") => Len(op.ret) >= 1

\* getRelated("hi") has been asked after three exchanges of "hi"
C13_Witness ==
    /\ ThreeHi
    /\ op.name = "getRelated"
    /\ Len(op.ret) = 3
    /\ Len(memories) = 3

\* C17: for every limit >= 0, 0 and limits beyond the history included,
\* chatHistory(limit) returns exactly the min(limit, length) most recent
\* messages in their order of insertion.
C17_MostRecentLimit ==
    op.name = "getChatHistory" =>
        LET n == Min(op.limit, Len(chatHistory))
        IN  op.ret = SubSeq(chatHistory, Len(chatHistory) - n + 1, Len(chatHistory))

\* C18: dueTasks() returns exactly the pending tasks whose trigger time is
\* <= now; completeTask(id) sets that task's status to done and changes
\* nothing else, and nothing at all when no task has the id; a task that is
\* done stays done, so it is never due again.
C18_DueAndComplete ==
    [][ /\ op'.name = "getDueTasks"
            => /\ \A j \in 1..Len(op'.ret) :
                     /\ op'.ret[j].status = "pending"
                     /\ op'.ret[j].triggerTime <= now
                     /\ \E k \in 1..Len(tasks) : tasks[k] = op'.ret[j]
               /\ \A k \in 1..Len(tasks) :
                     (tasks[k].status = "pending" /\ tasks[k].triggerTime <= now)
                         => \E j \in 1..Len(op'.ret) : op'.ret[j] = tasks[k]
               /\ UNCHANGED <<echo, memories, logs, tasks, chatHistory>>
        /\ op'.name = "completeTask"
            => /\ Cardinality({k \in 1..Len(tasks) : tasks[k].id = op'.taskId}) <= 1
               /\ Len(tasks') = Len(tasks)
               /\ \A k \in 1..Len(tasks) :
                     tasks'[k] = IF tasks[k].id = op'.taskId
                                 THEN [tasks[k] EXCEPT !.status = "done"]
                                 ELSE tasks[k]
               /\ UNCHANGED <<echo, memories, logs, chatHistory>>
        /\ \A k \in 1..Len(tasks) :
              tasks[k].status = "done"
                  => /\ k <= Len(tasks')
                     /\ tasks'[k] = tasks[k] ]_vars

\* dueTasks() asked when one task is done and past its trigger time and
\* another is pending and due
C18_Witness ==
    /\ op.name = "getDueTasks"
    /\ Len(op.ret) = 1
    /\ \E k \in 1..Len(tasks) : tasks[k].status = "done" /\ tasks[k].triggerTime <= now

\* the task-intent texts among the messages an autonomous cycle scans
ScannedIntents ==
    {extractTaskIntent(recentChats(chatHistory)[k].content).text :
        k \in {j \in 1..Len(recentChats(chatHistory)) :
                  truthy(extractTaskIntent(recentChats(chatHistory)[j].content))}}

TasksWith(ts, text) == {k \in 1..Len(ts) : ts[k].content = text}

\* C20: in an autonomous cycle an extracted task-intent text produces a new
\* Task exactly when no pending task has that text; when the only task with
\* the text is done and its message is still scanned, the cycle creates a new
\* pending Task.
C20_DedupAgainstPending ==
    (op.name = "autonomousAction" /\ op.by = "unit") =>
        \A text \in ScannedIntents :
            Cardinality(TasksWith(tasks, text)) > Cardinality(TasksWith(op.before, text))
                <=> ~\E k \in TasksWith(op.before, text) : op.before[k].status = "pending"

\* C19: heartbeats, autonomous cycles and message handling never run inside
\* one another: each handleUserMessage appends the user message and, right
\* after it, the reply it returns, so in every state a heartbeat, a cycle or
\* a save can observe the chat history has even length and alternates user,
\* companion.
C19_ChatAlternates ==
    /\ Len(chatHistory) % 2 = 0
    /\ \A k \in 1..Len(chatHistory) :
          chatHistory[k].role = IF k % 2 = 1 THEN "user" ELSE "echo"
    /\ op.name = "handleUserMessage"
          => /\ Len(chatHistory) >= 2
             /\ chatHistory[Len(chatHistory) - 1].role = "user"
             /\ chatHistory[Len(chatHistory) - 1].content = op.text
             /\ chatHistory[Len(chatHistory)].content = op.reply

\* a heartbeat under way, with its tick done and its cycle still to come,
\* after two messages
C19_Witness ==
    /\ pc = "heartbeat"
    /\ Len(chatHistory) = 4
    /\ hist.sent = 2

C15_CorruptIsAbsent ==
    (op.name = "load" /\ file.kind \in {"unreadable", "malformed"}) =>
        /\ op.fresh
        /\ op.loaded = freshWorld(now)
        /\ World = freshWorld(now)
        /\ pc = "idle"
        /\ tickTimer # 0
        /\ timers # {}

\* a process started again over a file that does not parse, after an
\* earlier run had taken a message
C15_Witness ==
    /\ op.name = "load"
    /\ file.kind = "malformed"
    /\ hist.restarts >= 1
    /\ hist.sent >= 1

\* C16: when save throws, in the autosave or after a chat message, the
\* entity, the memories and the agent state stay as they were when save was
\* called, and the process goes on with its heartbeat armed.
C16_SaveFailureKeepsRunning ==
    (op.name = "save" /\ op.by \in {"autosave", "router"} /\ ~op.ok) =>
        /\ World = op.held
        /\ pc = "idle"
        /\ timers # {}

\* C21: when catch-up runs (elapsed >= 60 s) it calls entity.tick once, with
\* the whole elapsed time as delta, before any of its autonomous cycles; its
\* cycles neither tick nor let a heartbeat in, and the repeating timer is
\* armed only when the last of them is done: until then no interval is armed
\* and no heartbeat has run.
C21_CatchUpBeforeTimer ==
    [][ /\ (pc = "boot" /\ now - echo.lastActive >= 60000)
            => /\ op'.name = "tick"
               /\ op'.delta = now - echo.lastActive
               /\ echo'.totalLifeSeconds = echo.totalLifeSeconds + (now - echo.lastActive)
               /\ hist.catchUpTicks = 0
               /\ hist'.catchUpTicks = 1
               /\ hist'.catchUpAutos = 0
               /\ UNCHANGED <<logs, timers, tickTimer>>
        /\ (pc = "catchUp" /\ remaining > 0)
            => /\ Len(logs') = Len(logs) + 1
               /\ hist'.catchUpAutos = hist.catchUpAutos + 1
               /\ hist'.catchUpTicks = hist.catchUpTicks
               /\ echo'.totalLifeSeconds = echo.totalLifeSeconds
               /\ pc' = "catchUp"
               /\ UNCHANGED <<timers, tickTimer>>
        /\ pc \in {"load", "boot", "catchUp"}
            => /\ timers = {}
               /\ tickTimer = 0
               /\ hist.heartbeats = 0
               /\ hist'.heartbeats = 0
        /\ timers' # timers /\ timers = {}
            => /\ pc = "catchUp"
               /\ remaining = 0
               /\ hist.offline >= 60000 => hist.catchUpTicks = 1 ]_vars

\* the timer has just been armed after a catch-up of one tick over 125 s
\* and two cycles
C21_Witness ==
    /\ CatchUpDone
    /\ hist.offline = 125000
    /\ hist.catchUpTicks = 1
    /\ hist.catchUpAutos = 2
    /\ Len(logs) >= 2
    /\ timers # {}

\* the probabilities of the first i entries of a transition list, summed
RECURSIVE CumulativeProb(_, _)
CumulativeProb(list, i) == IF i = 0 THEN 0 ELSE CumulativeProb(list, i - 1) + list[i][2]

\* the mood a tick's drift starts from: the one the tick found, or sleepy
\* when the tick forced it
DriftFrom == IF echo.energy < LowEnergy THEN "sleepy" ELSE pre.mood

\* C22: a drift draw r from mood m sets the mood to the first entry of m's
\* ordered transition list whose cumulative probability exceeds r and keeps
\* m when no entry is reached; so the new mood is m or a target listed for
\* m, one of the six moods, and the probabilities listed for every mood sum
\* to at most 1.
C22_DriftMood ==
    /\ \A m \in Moods :
          /\ CumulativeProb(MOOD_TRANSITIONS(m), Len(MOOD_TRANSITIONS(m))) <= 10
          /\ \A i \in 1..Len(MOOD_TRANSITIONS(m)) : MOOD_TRANSITIONS(m)[i][1] \in Moods
    /\ (op.name = "tick" /\ op.by = "unit") =>
          LET list == MOOD_TRANSITIONS(DriftFrom)
              reached == {i \in 1..Len(list) : CumulativeProb(list, i) > op.roll}
          IN  /\ echo.mood \in Moods
              /\ echo.mood \in {DriftFrom} \cup {list[i][1] : i \in 1..Len(list)}
              /\ ~op.drift => echo.mood = DriftFrom
              /\ (op.drift /\ reached = {}) => echo.mood = DriftFrom
              /\ (op.drift /\ reached # {})
                    => echo.mood = list[CHOOSE i \in reached : \A j \in reached : i <= j][1]

\* a draw of 0.3 from calm: thinking (cumulative 0.3) is passed over and
\* lonely (cumulative 0.5) is taken
C22_Witness ==
    /\ op.name = "tick"
    /\ op.by = "unit"
    /\ op.drift
    /\ op.roll = 3
    /\ pre.mood = "calm"
    /\ echo.energy >= LowEnergy
    /\ echo.mood = "lonely"

\* C23: one addExp(amount), amount >= 0, raises the level by at most 1.  If
\* exp + amount >= level * 100 it takes that threshold off once, adds 1 to
\* the level, sets the mood to excited and returns true; otherwise it
\* changes exp alone and returns false.  It returns true exactly when the
\* level changed.
C23_AddExpOneLevel ==
    op.name = "addExp" =>
        /\ IF pre.exp + op.amount >= pre.level * 100
           THEN /\ echo = [pre EXCEPT !.exp = pre.exp + op.amount - pre.level * 100,
                                      !.level = pre.level + 1,
                                      !.mood = "excited"]
                /\ op.ret
           ELSE /\ echo = [pre EXCEPT !.exp = pre.exp + op.amount]
                /\ ~op.ret
        /\ echo.level \in {pre.level, pre.level + 1}
        /\ op.ret <=> echo.level # pre.level

\* addExp(1000) at level 1: one level gained, and the exp left is still
\* beyond the threshold of level 2
C23_Witness ==
    /\ op.name = "addExp"
    /\ op.amount = 1000
    /\ pre.level = 1
    /\ echo.level = 2
    /\ echo.exp >= 200
    /\ op.ret

\* C24: onUserInteraction() raises energy by 5, capped at 100; makes the
\* mood happy exactly when it was lonely; makes the activity thinking exactly
\* when it was waiting or sleeping; and changes no other field.
C24_OnUserInteraction ==
    op.name = "onUserInteraction" =>
        /\ echo.energy = Min(100 * EnergyUnit, pre.energy + 5 * EnergyUnit)
        /\ echo.mood = IF pre.mood = "lonely" THEN "happy" ELSE pre.mood
        /\ echo.activity = IF pre.activity \in {"waiting", "sleeping"}
                           THEN "thinking" ELSE pre.activity
        /\ echo.level = pre.level
        /\ echo.exp = pre.exp
        /\ echo.totalLifeSeconds = pre.totalLifeSeconds
        /\ echo.lastActive = pre.lastActive
        /\ echo.createTime = pre.createTime

\* a lonely, learning entity just short of full energy: the cap applies, the
\* mood turns happy and the activity stays
C24_Witness ==
    /\ op.name = "onUserInteraction"
    /\ pre.mood = "lonely"
    /\ pre.activity = "learning"
    /\ pre.energy = MaxEnergy - 1
    /\ echo.energy = MaxEnergy
    /\ echo.mood = "happy"
    /\ echo.activity = "learning"

\* C25: every autonomousAction appends exactly one Life Log entry, which
\* carries the mood and the activity the entity has when the entry is made
\* (the mood the cycle found, before its experience is granted, and the
\* activity organizing the cycle has set); no step of the program removes,
\* reorders or rewrites an entry the log holds.
C25_LogAppendOnly ==
    [][ /\ Len(logs') >= Len(logs)
        /\ SubSeq(logs', 1, Len(logs)) = logs
        /\ op'.name = "autonomousAction"
            => /\ Len(logs') = Len(logs) + 1
               /\ logs'[Len(logs')].mood = echo.mood
               /\ logs'[Len(logs')].activity = "organizing"
               /\ logs'[Len(logs')].timestamp = now
        /\ op'.name \notin {"autonomousAction", "load"} => logs' = logs ]_vars

\* a cycle that levelled the entity up has appended the tenth entry, which
\* carries the mood the cycle found and not the one it left; another cycle
\* has followed, and the log has been read since
C25_Witness ==
    /\ op.name = "getRecentLogs"
    /\ Len(op.ret) = 11
    /\ Len(logs) = 11
    /\ op.ret[1] = logs[10]
    /\ op.ret[11] = logs[1]
    /\ echo.level = 2
    /\ logs[10].mood # "excited"
    /\ logs[10].timestamp > logs[9].timestamp

\* C26: when autonomousAction returns the activity is thinking or waiting,
\* whatever the entity was doing before (sleeping included, as after a tick
\* that found energy below 20), and the entity has been granted 10
\* experience through addExp: exp is 10 more, less the threshold when that
\* levelled it up.
C26_CycleLeavesThinkingOrWaiting ==
    (op.name = "autonomousAction" /\ op.by = "unit" /\ pc = "done") =>
        /\ echo.activity \in {"thinking", "waiting"}
        /\ echo.activity = IF op.coin THEN "thinking" ELSE "waiting"
        /\ IF pre.exp + 10 >= pre.level * 100
           THEN /\ echo.exp = pre.exp + 10 - pre.level * 100
                /\ echo.level = pre.level + 1
           ELSE /\ echo.exp = pre.exp + 10
                /\ echo.level = pre.level
        /\ echo.energy = pre.energy

\* a cycle on an entity asleep with energy below 20, as a tick leaves it
C26_Witness ==
    /\ op.name = "autonomousAction"
    /\ op.by = "unit"
    /\ pc = "done"
    /\ pre.activity = "sleeping"
    /\ pre.mood = "sleepy"
    /\ pre.energy < LowEnergy
    /\ echo.activity = "waiting"
    /\ echo.exp = pre.exp + 10

\* at least one token of the query occurs in the content or among the tags
\* of entry m
TokenOccurs(m, query) ==
    \E k \in 1..Len(extractTags(query)) :
        \/ includes(m.content, extractTags(query)[k])
        \/ \E j \in 1..Len(m.tags) : m.tags[j] = extractTags(query)[k]

\* the positions of the store whose entry had a positive score at the call
PositiveBefore ==
    {i \in 1..Len(op.before) : ScorePositive(op.before[i], op.query, now)}

\* C27: getRelated(query, limit) returns at most limit entries, in
\* descending order of score, and they are the limit highest-scoring of the
\* entries with score > 0 (all of them when there are fewer); an entry's
\* score is positive exactly when a query token occurs in its content or
\* its tags.
C27_TopLimitByScore ==
    op.name = "getRelated" =>
        /\ Len(op.ret) = Min(op.limit, Cardinality(PositiveBefore))
        /\ \A k, l \in 1..Len(op.ret) :
              k < l => ~scoreGreater(op.ret[l], op.ret[k], extractTags(op.query), now)
        /\ \A i \in PositiveBefore \ Returned :
              \A k \in 1..Len(op.ret) :
                  ~scoreGreater(op.before[i], op.ret[k], extractTags(op.query), now)
        /\ \A i \in 1..Len(op.before) :
              ScorePositive(op.before[i], op.query, now)
                  <=> TokenOccurs(op.before[i], op.query)

\* a call with limit 1 on a store where an entry of positive score stands
\* before the one returned, and an entry without the token is held too
C27_Witness ==
    /\ op.name = "getRelated"
    /\ op.limit = 1
    /\ Len(op.ret) = 1
    /\ \E i \in Returned : \E j \in PositiveBefore : j < i
    /\ \E i \in 1..Len(op.before) : ~TokenOccurs(op.before[i], op.query)

\* C28: getRecent(limit), getImportant(limit) and summarize() leave the
\* store as it was: the entries in the same order, each with its recall
\* count and last-recall time; summarize() returns the fixed text for the
\* empty store exactly when the store is empty.
C28_ReadsLeaveStore ==
    /\ op.name \in {"getRecent", "getImportant", "summarize"} => memories = op.before
    /\ op.name = "summarize" => (op.ret = SummaryEmpty <=> Len(op.before) = 0)

\* summarize() on a store of three entries, held neither in the order of
\* importance nor newest first, one of them recalled before
C28_Witness ==
    /\ op.name = "summarize"
    /\ Len(memories) = 3
    /\ memories[1].importance < memories[2].importance
    /\ memories[1].createTime < memories[3].createTime
    /\ \E i \in 1..3 : memories[i].recallCount >= 1
    /\ op.ret # SummaryEmpty

\* C29: in every step of the store, each entry held before the step is
\* held after it at the same place with the same id, content, importance,
\* tags and creation time and a recall count no smaller, so no entry is
\* removed; a step that is not getRelated leaves every entry's recall count
\* and last-recall time as they were.
C29_EntryKept(i) ==
    /\ i <= Len(memories')
    /\ memories'[i].id = memories[i].id
    /\ memories'[i].content = memories[i].content
    /\ memories'[i].importance = memories[i].importance
    /\ memories'[i].tags = memories[i].tags
    /\ memories'[i].createTime = memories[i].createTime
    /\ memories'[i].recallCount >= memories[i].recallCount
    /\ op'.name # "getRelated" =>
          /\ memories'[i].recallCount = memories[i].recallCount
          /\ memories'[i].lastRecallTime = memories[i].lastRecallTime

C29_EntriesImmutable ==
    [][\A i \in 1..Len(memories) : C29_EntryKept(i)]_vars

\* a third entry added to a store whose first entry was recalled twice
C29_Witness ==
    /\ op.name = "add"
    /\ Len(memories) = 3
    /\ memories[1].recallCount = 2
    /\ memories[1].lastRecallTime > memories[1].createTime
    /\ memories[3].recallCount = 0

\* the intent of a message: what the first of the four patterns, in their
\* order, that matches the text captures, trimmed; empty when none matches
C30_Intent(text) ==
    LET matching == {p \in 1..Len(patterns) : matchPattern(text, patterns[p]).matched}
    IN  IF matching = {} THEN <<>>
        ELSE trim(matchPattern(text, patterns[CHOOSE p \in matching :
                                                 \A q \in matching : p <= q]).capture)

\* the places in the chat history of the last 10 messages of the user
C30_Window ==
    {i \in 1..Len(chatHistory) :
        /\ chatHistory[i].role = "user"
        /\ Cardinality({j \in (i + 1)..Len(chatHistory) :
                           chatHistory[j].role = "user"}) < 10}

\* C30: an autonomous cycle scans the last 10 messages of the user, messages
\* of the companion not counted, and takes from each at most the intent of
\* the first pattern in order that matches: the tasks after a cycle are the
\* tasks before it followed by one task for each such intent that no task
\* carried, and none for a message of the user older than those 10.
C30_ScansLastTen ==
    op.name = "autonomousAction" =>
        LET intents == {C30_Intent(chatHistory[i].content) : i \in C30_Window} \ {<<>>}
            known == {op.before[k].content : k \in 1..Len(op.before)}
        IN  /\ Len(tasks) = Len(op.before) + Cardinality(intents \ known)
            /\ SubSeq(tasks, 1, Len(op.before)) = op.before
            /\ {tasks[k].content : k \in 1..Len(tasks)} = known \cup intents

\* a cycle over eleven messages of the user: the oldest asks for a reminder
\* and gets no task, the newest matches the first and the third pattern and
\* gets the task of the first
C30_Witness ==
    /\ op.name = "autonomousAction"
    /\ Cardinality({i \in 1..Len(chatHistory) : chatHistory[i].role = "user"}) = 11
    /\ chatHistory[1].content = T_remind
    /\ chatHistory[Len(chatHistory) - 1].content = T_both
    /\ TasksWith(tasks, <<"mai", "nai">>) = {}
    /\ TasksWith(tasks, <<"he", "shui">>) # {}
    /\ TasksWith(tasks, <<"ji", "de", "he", "shui">>) = {}

\* C31: a task is created pending with trigger time = creation time + 1
\* hour, so getDueTasks returns no task earlier than one hour after its
\* creation; in every step a task keeps its text and trigger time, and its
\* status stays as it was or moves from pending to done.
C31_TaskLifecycle ==
    [][ /\ Len(tasks') >= Len(tasks)
        /\ \A k \in (Len(tasks) + 1)..Len(tasks') :
              /\ tasks'[k].status = "pending"
              /\ tasks'[k].createTime = now
              /\ tasks'[k].triggerTime = tasks'[k].createTime + 3600 * 1000
        /\ \A k \in 1..Len(tasks) :
              /\ tasks'[k].content = tasks[k].content
              /\ tasks'[k].triggerTime = tasks[k].triggerTime
              /\ tasks'[k].status = tasks[k].status
                   \/ (tasks[k].status = "pending" /\ tasks'[k].status = "done")
        /\ op'.name = "getDueTasks" =>
              /\ \A j \in 1..Len(op'.ret) :
                    now >= op'.ret[j].createTime + 3600 * 1000
              /\ \A k \in 1..Len(tasks) :
                    now < tasks[k].createTime + 3600 * 1000
                        => \A j \in 1..Len(op'.ret) : op'.ret[j] # tasks[k] ]_vars

\* the first task completed an hour after its creation, beside a second
\* task created in that hour and still pending
C31_Witness ==
    /\ op.name = "completeTask"
    /\ Len(tasks) = 2
    /\ tasks[1].status = "done"
    /\ tasks[2].status = "pending"
    /\ tasks[2].createTime = tasks[1].triggerTime
    /\ tasks[2].triggerTime = tasks[2].createTime + TaskDelayMs
    /\ now = tasks[2].createTime

\* C32: in a step of handleUserMessage the store grows by exactly one
\* entry, the message, which is there when the related memories are
\* retrieved (among fewer than 3 others it is recalled itself, and a reply
\* that lists memories lists it); the interaction and the grant of 5 experience are applied
\* before the reply is made, so the prefix of the reply is that of the mood
\* after them.
C32_MessageOrder ==
    [][ op'.name = "handleUserMessage" =>
          /\ Len(memories') = Len(memories) + 1
          /\ memories'[Len(memories')].content = op'.text
          /\ Len(memories) < 3 => memories'[Len(memories')].recallCount = 1
          /\ op'.reply.body.kind = "memories" =>
                \E k \in 1..Len(op'.reply.body.items) :
                    op'.reply.body.items[k] = op'.text
          /\ echo'.energy = Min(MaxEnergy, echo.energy + 5 * EnergyUnit)
          /\ \/ echo'.level = echo.level /\ echo'.exp = echo.exp + 5
             \/ /\ echo'.level = echo.level + 1
                /\ echo'.exp = echo.exp + 5 - echo.level * 100
                /\ echo'.mood = "excited"
          /\ op'.reply.prefix = (IF echo'.mood = "calm" THEN "" ELSE echo'.mood)
          /\ op'.reply.body.kind = "age" =>
                op'.reply.body.age = getAgeDescription(echo') ]_vars

\* a second message, arriving in a calm mood, that brings the level-up:
\* the reply carries the prefix of excited and lists the message itself
C32_Witness ==
    /\ op.name = "handleUserMessage"
    /\ pc = "done"
    /\ pre.mood = "calm"
    /\ echo.mood = "excited"
    /\ echo.level = pre.level + 1
    /\ op.reply.prefix = "excited"
    /\ op.reply.body.kind = "memories"
    /\ Len(memories) = 2

\* C33: no two tasks held by the agent have the same text, whatever their
\* status, after any sequence of messages, cycles and completeTask calls.
C33_TaskTextsDistinct ==
    \A j \in 1..Len(tasks) : \A k \in 1..Len(tasks) :
        tasks[j].content = tasks[k].content => j = k

\* a second cycle over two messages that carry the same intent, the one task
\* of that text completed in between
C33_Witness ==
    /\ op.name = "autonomousAction"
    /\ Len(logs) = 2
    /\ Len(chatHistory) = 4
    /\ extractTaskIntent(chatHistory[1].content) = extractTaskIntent(chatHistory[3].content)
    /\ truthy(extractTaskIntent(chatHistory[1].content))
    /\ Len(tasks) = 1
    /\ tasks[1].status = "done"
    /\ tasks[1].createTime < now

\* the scheduler is between two handlers, a complete heartbeat or the
\* catch-up of start() just ended
C34_AtRest ==
    /\ pc = "idle"
    /\ \/ op.by = "heartbeat" /\ op.name \in {"autonomousAction", "skip"}
       \/ op.name = "arm"

\* C34: at the end of a complete heartbeat (the tick, then the autonomous
\* cycle when one is due) and at the end of catch-up, energy below 20
\* implies that the activity of the entity is sleeping.
C34_LowEnergySleeps ==
    C34_AtRest => (echo.energy < 20 * EnergyUnit => echo.activity = "sleeping")

\* C35: at most one heartbeat timer is armed at any time, for any sequence
\* of start() and stop() calls on one scheduler, and after a stop() no
\* timer armed by an earlier start() is left to fire.
C35_OneTimer ==
    /\ Cardinality(timers) <= 1
    /\ pc = "stopped" => timers = {}

\* C36: when handleUserMessage has made its reply and returned, the mood of
\* the entity is not lonely and the reply does not carry the prefix of
\* lonely, whatever the mood was when the message arrived.
C36_NeverLonelyReply ==
    op.name = "handleUserMessage" =>
        /\ echo.mood # "lonely"
        /\ op.reply.prefix # "lonely"
        /\ chatHistory[Len(chatHistory)].content.prefix # "lonely"

\* a message that arrived in a lonely mood and brought no level-up: the
\* reply carries the prefix of happy
C36_Witness ==
    /\ op.name = "handleUserMessage"
    /\ pc = "chat"
    /\ pre.mood = "lonely"
    /\ echo.level = pre.level
    /\ echo.mood = "happy"
    /\ op.reply.prefix = "happy"

\* C37: a step of handleUserMessage leaves the tasks, the life log, the
\* scheduler's last-tick and last-autonomous times and the entity's lifetime
\* seconds and last-active time as they were; a step of autonomousAction
\* leaves the memory store, recall counts and last-recall times included,
\* and the chat history as they were.
C37_EntryPointFrames ==
    [][ /\ op'.name = "handleUserMessage" =>
              /\ UNCHANGED <<tasks, logs, lastTick, lastAutonomous>>
              /\ echo'.totalLifeSeconds = echo.totalLifeSeconds
              /\ echo'.lastActive = echo.lastActive
        /\ op'.name = "autonomousAction" =>
              /\ Len(memories') = Len(memories)
              /\ \A k \in 1..Len(memories) :
                    /\ memories'[k].recallCount = memories[k].recallCount
                    /\ memories'[k].lastRecallTime = memories[k].lastRecallTime
                    /\ memories'[k] = memories[k]
              /\ UNCHANGED chatHistory ]_vars

\* a second message, sent after a heartbeat whose cycle made a task of the
\* first: there were memories and a chat history for the cycle to leave
\* alone, and there are tasks, a life log and moved scheduler times for the
\* message to leave alone
C37_Witness ==
    /\ op.name = "handleUserMessage"
    /\ hist.sent = 2
    /\ hist.liveAutos >= 1
    /\ Len(tasks) >= 1
    /\ Len(logs) >= 1
    /\ lastTick > StartTime
    /\ lastAutonomous > StartTime
    /\ echo.totalLifeSeconds > 0
    /\ memories[1].recallCount >= 1

\* C38: the life log entry an autonomous cycle writes records the activity
\* organizing and the mood the entity had before the cycle's experience
\* grant; a level-up in that cycle, which sets the mood to excited, does not
\* show in the entry.
C38_LogBeforeGrant ==
    (op.name = "autonomousAction" /\ op.by = "unit" /\ pc = "done") =>
        /\ Len(logs) = 1
        /\ logs[1].activity = "organizing"
        /\ logs[1].mood = pre.mood
        /\ logs[1].content.mood = pre.mood
        /\ logs[1].timestamp = now

\* a cycle whose grant brings the level-up: the entity ends excited, the
\* entry holds the calm mood it had
C38_Witness ==
    /\ op.name = "autonomousAction"
    /\ pc = "done"
    /\ pre.mood = "calm"
    /\ pre.activity = "sleeping"
    /\ echo.level = pre.level + 1
    /\ echo.mood = "excited"
    /\ logs[1].mood = "calm"

\* C39: in every step of the running program (ticks of delta >= 0,
\* autonomous cycles, user messages) the level and the lifetime seconds of
\* the entity do not decrease; the lifetime seconds change in a tick only,
\* by exactly the delta passed to it.
C39_LevelAndLifetimeGrow ==
    [][ pc # "load" =>
          /\ echo'.level >= echo.level
          /\ echo'.totalLifeSeconds >= echo.totalLifeSeconds
          /\ op'.name = "tick" =>
                /\ op'.delta >= 0
                /\ echo'.totalLifeSeconds = echo.totalLifeSeconds + op'.delta
          /\ op'.name # "tick" => echo'.totalLifeSeconds = echo.totalLifeSeconds ]_vars

\* a heartbeat tick of the entity at level 2, after the catch-up that
\* brought the level-up and a message
C39_Witness ==
    /\ op.name = "tick"
    /\ op.by = "heartbeat"
    /\ op.delta > 0
    /\ echo.level = 2
    /\ hist.sent >= 1
    /\ hist.catchUpTicks = 1
    /\ echo.totalLifeSeconds > op.delta + hist.offline

====
